---- MODULE Spec2Model ----
(***************************************************************************)
(* A model of the kfifo ring buffer of src/kfifo.c and src/kfifo.h.        *)
(*                                                                         *)
(* The FIFO structure (kfifo_t) is the record variable fifo, the storage   *)
(* it points to is the byte array buffer.  Unsigned arithmetic is done     *)
(* modulo 2^UINT_BITS.  The producer's source data are the bytes           *)
(* 1, 2, 3, ... (modulo 256) in the order they are accepted, so every      *)
(* misplaced, lost or duplicated byte is visible in the data.              *)
(***************************************************************************)
EXTENDS Integers, Sequences, FiniteSets, TLC

(***************************************************************************)
(* Bounds of the model.                                                    *)
(***************************************************************************)
\* width of `unsigned int` in the model (32 in the build)
UINT_BITS == 4
\* largest storage size in bytes handed to kfifo_init
MaxSize == 8
\* largest element size in bytes handed to kfifo_init
MaxEsize == 2
\* largest storage size and largest total of accepted elements where the
\* cursor operations of kfifo.h are called as well
MaxApiSize == 4
MaxApiAccepted == 6
\* largest storage size and largest total of accepted elements where a
\* producer and a consumer context are interleaved step by step
MaxConcSize == 4
MaxConcAccepted == 6
\* largest storage size handed to kfifo_init, and largest total of accepted
\* elements after one kfifo_init, where kfifo_init is called with any
\* arguments and at any time
MaxInitSize == 4
MaxInitAccepted == 2
\* largest storage size, and largest number of calls of all contexts
\* together, where a task and two interrupt handlers share the FIFO
MaxIrqSize == 2
MaxIrqCalls == 5

\* the preemption model with an unlocked producer: the calls all contexts
\* make together
MaxMixCalls == 4

\* the task nesting irq_lock, kmutex_lock and the locked calls: the depth of
\* the nesting and the calls all contexts make together
MaxNest == 2
MaxNestCalls == 4

\* the software timers of stimer.c: the stimer_t objects of the
\* application, the largest period handed to stimer_create and to
\* stimer_change_period, and the largest value of the tick, which stays far
\* below the point where a uint32_t wraps
MaxTimers == 2
MaxPeriod == 2
MaxTick == 4

RECURSIVE Pow2(_)
Pow2(k) == IF k <= 0 THEN 1 ELSE 2 * Pow2(k - 1)

UINT_MOD == Pow2(UINT_BITS)
UINT_MAX == UINT_MOD - 1

\* the number of elements a behaviour may hand to the FIFO in total; more
\* than UINT_MOD, so that both cursors wrap around
MaxAccepted == UINT_MOD + 2

\* a conversion to an unsigned type whose number of values is not a
\* multiple of the capacities
U_odd(x) == x % (UINT_MOD - 1)

\* conversion to unsigned int
U(x) == x % UINT_MOD

\* the bytes a caller can find in memory it has not written
FillSet == {0, 255}

(***************************************************************************)
(* Integer and bit utilities: src/math/log2.h, src/math/minmax.h           *)
(***************************************************************************)
RECURSIVE BitAnd(_, _)
BitAnd(a, b) ==
    IF a = 0 \/ b = 0 THEN 0
    ELSE (a % 2) * (b % 2) + 2 * BitAnd(a \div 2, b \div 2)

RECURSIVE BitLen(_)
BitLen(n) == IF n = 0 THEN 0 ELSE 1 + BitLen(n \div 2)

\* count of leading zero bits of a word
CLZ(n) == UINT_BITS - BitLen(n)

is_power_of_2(n) == n /= 0 /\ BitAnd(n, U(n - 1)) = 0

\* what 1U << -1 can give: the behaviour is undefined, a shifter that takes
\* counts of a word or more to shift everything out gives 0, one that uses
\* the low bits of the count gives the top bit
ShlOutcomes == {0, Pow2(UINT_BITS - 1)}

\* what a division by zero can give when it does not trap: the behaviour is
\* undefined, a hardware divider gives 0, a library routine a saturated
\* quotient
DivOutcomes == {0, UINT_MAX}

\* the ways the undefined operations of one call can turn out: the quotient
\* of a division by zero or a trap, and the value of 1U << -1
UBChoices == [div : DivOutcomes, trap : BOOLEAN, shl : ShlOutcomes]

NoUB == CHOOSE ub \in UBChoices : ~ub.trap

\* the choices that make a difference to kfifo_init(.., size, esize): the
\* division is undefined for esize = 0, the shift for a quotient of 0
UBChoicesOf(size, esize) ==
    IF esize = 0
    THEN {ub \in UBChoices :
            /\ ub.trap => ub.div = NoUB.div
            /\ (ub.trap \/ ub.div /= 0) => ub.shl = NoUB.shl}
    ELSE IF size < esize
    THEN {ub \in UBChoices : ub.div = NoUB.div /\ ~ub.trap}
    ELSE {NoUB}

\* a rounding that shifts by the bit length of n, not by one less
rounddown_pow_of_two_long(n, shl) ==
    IF n = 0 THEN shl ELSE U(Pow2(UINT_BITS - CLZ(n)))

\* 1U << ((32 - __CLZ(n)) - 1); for n = 0 the shift count is -1 and the
\* result is shl
rounddown_pow_of_two(n, shl) ==
    IF n = 0 THEN shl ELSE U(Pow2((UINT_BITS - CLZ(n)) - 1))

min(x, y) == IF x < y THEN x ELSE y

min3(x, y, z) == min(min(x, y), z)

(***************************************************************************)
(* kfifo_init: src/kfifo.c.  The result is the return value and the fields *)
(* the call leaves in the structure.                                       *)
(***************************************************************************)
\* errno value of an invalid argument
EINVAL == 22

\* a kfifo_init that leaves the cursors alone
kfifo_init_keep_cursors(f, buffer, size0, esize, ub) ==
    LET elems == IF esize = 0 THEN ub.div ELSE U(size0 \div esize)
        size  == IF ~is_power_of_2(elems)
                 THEN rounddown_pow_of_two(elems, ub.shl) ELSE elems
    IN  [trap |-> esize = 0 /\ ub.trap,
         ret  |-> IF size < 2 THEN -EINVAL ELSE 0,
         fifo |-> IF esize = 0 /\ ub.trap THEN f
                  ELSE [in |-> f.in, out |-> f.out, esize |-> esize,
                        data |-> buffer,
                        mask |-> IF size < 2 THEN 0 ELSE U(size - 1)]]

\* kfifo_init(fifo, buffer, size, esize) on the structure f: whether the
\* division trapped, the return value and the structure the call leaves;
\* ub says how the undefined operations turn out.  A call that traps does
\* not return and leaves the structure as it was.
kfifo_init(f, buffer, size0, esize, ub) ==
    LET elems == IF esize = 0 THEN ub.div ELSE U(size0 \div esize)
        size  == IF ~is_power_of_2(elems)
                 THEN rounddown_pow_of_two(elems, ub.shl) ELSE elems
    IN  [trap |-> esize = 0 /\ ub.trap,
         ret  |-> IF size < 2 THEN -EINVAL ELSE 0,
         fifo |-> IF esize = 0 /\ ub.trap THEN f
                  ELSE [in |-> 0, out |-> 0, esize |-> esize,
                        data |-> buffer,
                        mask |-> IF size < 2 THEN 0 ELSE U(size - 1)]]

\* the structure before the first kfifo_init: zero-initialized, as
\* kfifo_initialized assumes
ZeroFifo == [in |-> 0, out |-> 0, esize |-> 0, data |-> 0, mask |-> 0]

\* the storage a caller hands to kfifo_init, by address
DataArgs == {1, 2}

\* the storage sizes and element sizes a caller initializes a FIFO with
InitArgs ==
    {a \in (2..MaxSize) \X (1..MaxEsize) :
        a[1] >= a[2] /\ kfifo_init(ZeroFifo, 1, a[1], a[2], NoUB).ret = 0}

(***************************************************************************)
(* Inline helpers: src/kfifo.h                                             *)
(***************************************************************************)
kfifo_initialized(f) == IF f.mask /= 0 THEN 1 ELSE 0

kfifo_size(f) == U(f.mask + 1)

kfifo_len(f) == U(f.in - f.out)

kfifo_is_empty(f) == IF f.in = f.out THEN 1 ELSE 0

\* a full test that compares the stored count with mask, not mask + 1
kfifo_is_full_mask(f) == IF kfifo_len(f) >= f.mask THEN 1 ELSE 0

kfifo_is_full(f) == IF kfifo_len(f) > f.mask THEN 1 ELSE 0

kfifo_avail(f) == U(kfifo_size(f) - kfifo_len(f))

\* kfifo_unused that does not subtract the stored count
kfifo_unused_capacity(f) == U(f.mask + 1)

\* kfifo_unused with the capacity taken to be mask instead of mask + 1
kfifo_unused_mask(f) == U(f.mask - U(f.in - f.out))

kfifo_unused(f) == U(U(f.mask + 1) - U(f.in - f.out))

(***************************************************************************)
(* The bulk copy engine: src/kfifo.c                                       *)
(***************************************************************************)
\* the values of CopyGeom with l = len: no split at the end of the storage
CopyGeom_nosplit(f, len, off) ==
    LET o == BitAnd(off, f.mask)
        s == U(f.mask + 1)
        offB  == IF f.esize /= 1 THEN U(o * f.esize) ELSE o
        sizeB == IF f.esize /= 1 THEN U(s * f.esize) ELSE s
        lenB  == IF f.esize /= 1 THEN U(len * f.esize) ELSE len
    IN  [off |-> offB, size |-> sizeB, len |-> lenB, l |-> lenB]

\* the values of CopyGeom with the first segment cut at the distance in
\* elements, not in bytes, to the end of the storage
CopyGeom_elemsplit(f, len, off) ==
    LET o == BitAnd(off, f.mask)
        s == U(f.mask + 1)
        offB  == IF f.esize /= 1 THEN U(o * f.esize) ELSE o
        sizeB == IF f.esize /= 1 THEN U(s * f.esize) ELSE s
        lenB  == IF f.esize /= 1 THEN U(len * f.esize) ELSE len
    IN  [off |-> offB, size |-> sizeB, len |-> lenB,
         l |-> min(lenB, U(s - o))]

\* byte offset, byte size and byte length as kfifo_copy_in and
\* kfifo_copy_out compute them, and the length l of the first segment
CopyGeom(f, len, off) ==
    LET o == BitAnd(off, f.mask)
        s == U(f.mask + 1)
        offB  == IF f.esize /= 1 THEN U(o * f.esize) ELSE o
        sizeB == IF f.esize /= 1 THEN U(s * f.esize) ELSE s
        lenB  == IF f.esize /= 1 THEN U(len * f.esize) ELSE len
    IN  [off |-> offB, size |-> sizeB, len |-> lenB,
         l |-> min(lenB, U(sizeB - offB))]

\* memcpy(data + at, src + from, n): the storage after the copy
MemcpyIn(buf, at, src, from, n) ==
    [a \in DOMAIN buf |->
        IF a >= at /\ a < at + n /\ (a - at) + from + 1 \in DOMAIN src
        THEN src[(a - at) + from + 1] ELSE buf[a]]

\* memcpy(dst + to, data + at, n): the n bytes read from storage; a byte
\* outside the storage is whatever the memory behind it holds (junk)
MemcpyOut(buf, at, n, junk) ==
    [i \in 1..n |-> IF at + (i - 1) \in DOMAIN buf THEN buf[at + (i - 1)]
                    ELSE junk]

\* kfifo_copy_in whose second memcpy starts at src instead of src + l
kfifo_copy_in_src0(f, buf, src, len, off) ==
    LET g == CopyGeom(f, len, off)
        first == MemcpyIn(buf, g.off, src, 0, g.l)
    IN  MemcpyIn(first, 0, src, 0, g.len - g.l)

\* the storage after kfifo_copy_in(fifo, src, len, off)
kfifo_copy_in(f, buf, src, len, off) ==
    LET g == CopyGeom(f, len, off)
        first == MemcpyIn(buf, g.off, src, 0, g.l)
    IN  MemcpyIn(first, 0, src, g.l, g.len - g.l)

\* the destination after kfifo_copy_out(fifo, dst, len, off)
kfifo_copy_out(f, buf, len, off, junk) ==
    LET g == CopyGeom(f, len, off)
    IN  MemcpyOut(buf, g.off, g.l, junk) \o MemcpyOut(buf, 0, g.len - g.l, junk)

(***************************************************************************)
(* The public transfer operations: src/kfifo.c.  Each operator gives the   *)
(* structure, the storage, the destination and the return value that the   *)
(* call leaves behind.                                                     *)
(***************************************************************************)
\* kfifo_in without the clamp of len to the unused space
kfifo_in_noclamp(f, buf, src, len0) ==
    [fifo   |-> [f EXCEPT !.in = U(f.in + len0)],
     buffer |-> kfifo_copy_in(f, buf, src, len0, f.in),
     ret    |-> len0]

\* a kfifo_in that makes room in a full FIFO by dropping the oldest element
kfifo_in_overwrite(f, buf, src, len0) ==
    LET l   == kfifo_unused(f)
        len == IF len0 > l THEN l ELSE len0
    IN  [fifo   |-> [f EXCEPT !.in = U(f.in + len),
                              !.out = IF len0 > l THEN U(f.out + 1)
                                      ELSE f.out],
         buffer |-> kfifo_copy_in(f, buf, src, len, f.in),
         ret    |-> len]

kfifo_in(f, buf, src, len0) ==
    LET l   == kfifo_unused(f)
        len == IF len0 > l THEN l ELSE len0
    IN  [fifo   |-> [f EXCEPT !.in = U(f.in + len)],
         buffer |-> kfifo_copy_in(f, buf, src, len, f.in),
         ret    |-> len]

\* kfifo_out_peek that clamps len to the capacity instead of in - out
kfifo_out_peek_capclamp(f, buf, len0, junk) ==
    LET l   == U(f.mask + 1)
        len == IF len0 > l THEN l ELSE len0
    IN  [fifo   |-> f,
         buffer |-> buf,
         dst    |-> kfifo_copy_out(f, buf, len, f.out, junk),
         ret    |-> len]

\* kfifo_out_peek that advances out as kfifo_out does
kfifo_out_peek_consuming(f, buf, len0, junk) ==
    LET l   == U(f.in - f.out)
        len == IF len0 > l THEN l ELSE len0
    IN  [fifo   |-> [f EXCEPT !.out = U(f.out + len)],
         buffer |-> buf,
         dst    |-> kfifo_copy_out(f, buf, len, f.out, junk),
         ret    |-> len]

kfifo_out_peek(f, buf, len0, junk) ==
    LET l   == U(f.in - f.out)
        len == IF len0 > l THEN l ELSE len0
    IN  [fifo   |-> f,
         buffer |-> buf,
         dst    |-> kfifo_copy_out(f, buf, len, f.out, junk),
         ret    |-> len]

\* kfifo_out that advances out by the requested instead of the peeked count
kfifo_out_requested(f, buf, len0, junk) ==
    LET p == kfifo_out_peek(f, buf, len0, junk)
    IN  [fifo   |-> [p.fifo EXCEPT !.out = U(p.fifo.out + len0)],
         buffer |-> p.buffer,
         dst    |-> p.dst,
         ret    |-> p.ret]

\* kfifo_out that advances out first and copies from the new read cursor
kfifo_out_advance_first(f, buf, len0, junk) ==
    LET l   == U(f.in - f.out)
        len == IF len0 > l THEN l ELSE len0
    IN  [fifo   |-> [f EXCEPT !.out = U(f.out + len)],
         buffer |-> buf,
         dst    |-> kfifo_copy_out(f, buf, len, U(f.out + len), junk),
         ret    |-> len]

kfifo_out(f, buf, len0, junk) ==
    LET p == kfifo_out_peek(f, buf, len0, junk)
    IN  [fifo   |-> [p.fifo EXCEPT !.out = U(p.fifo.out + p.ret)],
         buffer |-> p.buffer,
         dst    |-> p.dst,
         ret    |-> p.ret]

\* a memcpy of kfifo_copy_in / kfifo_copy_out with these arguments touches
\* a byte outside the storage
CopyOutside(f, buf, len, off) ==
    LET g == CopyGeom(f, len, off)
    IN  \/ g.l > 0 /\ (g.off + g.l) - 1 \notin DOMAIN buf
        \/ g.len - g.l > 0 /\ (g.len - g.l) - 1 \notin DOMAIN buf

\* kfifo_out_linear that advances out by the count it returns
kfifo_out_linear_consuming(f, n) ==
    LET size == U(f.mask + 1)
        off  == BitAnd(f.out, f.mask)
        ret  == min3(n, U(f.in - f.out), U(size - off))
    IN  [fifo |-> [f EXCEPT !.out = U(f.out + ret)], tail |-> off, ret |-> ret]

\* kfifo_out_linear without the clamp to the end of the storage
kfifo_out_linear_nowrap(f, n) ==
    LET off == BitAnd(f.out, f.mask)
    IN  [fifo |-> f, tail |-> off, ret |-> min(n, U(f.in - f.out))]

\* the structure the call leaves, the value written to *tail and the
\* return value
kfifo_out_linear(f, n) ==
    LET size == U(f.mask + 1)
        off  == BitAnd(f.out, f.mask)
    IN  [fifo |-> f, tail |-> off,
         ret |-> min3(n, U(f.in - f.out), U(size - off))]

\* the kfifo_out_linear of src/math/mymath.h, which checks its arguments
\* first (fifo is never NULL here)
kfifo_out_linear_checked(f, n) ==
    IF n = 0 THEN [fifo |-> f, tail |-> 0, ret |-> 0]
    ELSE LET size  == U(f.mask + 1)
             off   == BitAnd(f.out, f.mask)
             avail == U(f.in - f.out)
         IN  [fifo |-> f, tail |-> off, ret |-> min3(n, avail, U(size - off))]

(***************************************************************************)
(* Inline cursor operations: src/kfifo.h                                   *)
(***************************************************************************)
\* a reset that leaves out alone
kfifo_reset_in_only(f) == [f EXCEPT !.in = 0]

kfifo_reset(f) == [f EXCEPT !.in = 0, !.out = 0]

kfifo_reset_out(f) == [f EXCEPT !.out = f.in]

\* the kfifo_reset_out macro of the first header in src/log.h:
\* ((fifo)->in = (fifo)->out)
kfifo_reset_out_log(f) == [f EXCEPT !.in = f.out]

kfifo_skip_count(f, count) == [f EXCEPT !.out = U(f.out + count)]

kfifo_skip(f) == kfifo_skip_count(f, 1)

(***************************************************************************)
(* Reading in place: src/kfifo.c and src/kfifo.h                           *)
(***************************************************************************)
\* ret = kfifo_out_linear(fifo, &tail, n); the caller takes the ret
\* elements at data + tail * esize; kfifo_skip_count(fifo, ret)
linear_round(f, buf, n) ==
    LET r == kfifo_out_linear(f, n)
    IN  [fifo |-> kfifo_skip_count(r.fifo, r.ret),
         dst  |-> MemcpyOut(buf, r.tail * f.esize, r.ret * f.esize, 0),
         tail |-> r.tail,
         ret  |-> r.ret]

(***************************************************************************)
(* State.                                                                  *)
(***************************************************************************)
VARIABLES
    fifo,     \* the kfifo_t structure: in, out, mask, esize
    buffer,   \* the storage fifo->data points to, byte address -> byte
    fault,    \* a memcpy has touched memory outside the storage
    nIn,      \* elements accepted by all kfifo_in calls so far
    nOut,     \* elements removed by all consumer calls so far
    ref,      \* the reference queue: the accepted and not yet removed bytes
    last,     \* the last completed call: arguments, results and the state
              \* it was made in
    pcP,      \* where the producer context is in its kfifo_in call
    pLoc,     \* the locals of that call: len, off and the source buffer
    wbuf,     \* the producer's stores that have not reached the storage yet
    pcC,      \* where the consumer context is in its kfifo_out call
    cLoc,     \* the locals of that call: len and off
    cDst,     \* the consumer's destination buffer: the bytes loaded so far
    rpend,    \* the consumer's loads that have not been performed yet
    delivered,\* all bytes the kfifo_out calls have returned to the consumer
    role,     \* the call each context of the preemption model makes
    primask,  \* the PRIMASK register: 1 when interrupts are masked
    stack,    \* the contexts that have started and not finished, the
              \* running one last
    pc,       \* where each of these contexts is in its call
    loc,      \* the locals of each of these contexts
    levels,   \* the irq_lock_t values the task got from irq_lock() and has
              \* not passed to irq_unlock() yet, the latest last
    mutex,    \* the kmutex_t of the build without an operating system
    held,     \* for each acquisition the task has not released yet, its
              \* kind and the PRIMASK value before it, the latest last
    spinlock, \* a spinlock_t shared by the cores: lock and irq_state
    cpu,      \* for each core its PRIMASK register and whether its
              \* exclusive monitor is armed for the lock word
    agent,    \* for each context that uses the spinlock: its call, where it
              \* is in it, the value irq_lock() returned, whether it holds
              \* the lock, and the stores to the lock word its call made
    node,     \* the list_node_t objects of the software timers: stimer_list
              \* (node 0) and the node member of each stimer_t
    timers,   \* the stimer_t objects: period, expire_time, auto_reload and
              \* active, and whether stimer_create has been called on it
    tick,     \* the value stimer_get_tick() returns
    service,  \* last_service_time and accumulated_drift, and the locals
              \* of the stimer_service call in progress
    hazard    \* what list_del has done with the poison value it leaves in
              \* a removed node

seqVars == <<fault, ref, last>>

concVars == <<pcP, pLoc, wbuf, pcC, cLoc, cDst, rpend, delivered>>

irqVars == <<role, primask, stack, pc, loc>>

lockVars == <<levels, mutex, held, spinlock, cpu, agent>>

timerVars == <<node, timers, tick, service, hazard>>

vars == <<fifo, buffer, nIn, nOut, seqVars, concVars, irqVars, lockVars,
         timerVars>>

\* the caller's source buffer of a kfifo_in call: the next nbytes bytes of
\* the producer's stream, given that k bytes were accepted before
SrcBuf(k, nbytes) == [i \in 1..nbytes |-> (k + i) % 256]

\* the count arguments a caller passes
LenArgs(f) == (0..(kfifo_size(f) + 1)) \cup {UINT_MAX}

Drop(s, n) == SubSeq(s, n + 1, Len(s))

Take(s, n) == SubSeq(s, 1, n)

Min(a, b) == IF a <= b THEN a ELSE b

\* what a read outside the storage can return to a kfifo_out or
\* kfifo_out_peek of len elements: any byte, when there is such a read
JunkOf(f, buf, len) ==
    IF CopyOutside(f, buf, Min(len, kfifo_len(f)), f.out) THEN FillSet
    ELSE {0}

Call(op, len, ret, dst, tail) ==
    [op |-> op, len |-> len, ret |-> ret, dst |-> dst, tail |-> tail,
     fifo0 |-> fifo, buffer0 |-> buffer, ref0 |-> ref,
     nIn0 |-> nIn, nOut0 |-> nOut]

(***************************************************************************)
(* The contexts of one core: the task and two interrupt handlers.  A       *)
(* handler preempts a context of lower priority between any two of its     *)
(* steps unless PRIMASK is set, and runs to its end before the preempted   *)
(* context goes on.                                                        *)
(***************************************************************************)
Ctx == {"task", "isr1", "isr2"}

ISRs == {"isr1", "isr2"}

Prio == [c \in Ctx |-> IF c = "task" THEN 0 ELSE IF c = "isr1" THEN 1 ELSE 2]

\* the locals of a context: the PRIMASK value saved by a locked call, the
\* clamped count and the cursor of the call, the cursor loaded by
\* cursor += count, the window offset, the data read, the numbers of
\* calls made and of elements accepted from this context, and the PRIMASK
\* value at the start of its current call
Loc0 == [saved |-> 0, len |-> 0, off |-> 0, tmp |-> 0, tail |-> 0,
         dst |-> <<>>, calls |-> 0, acc |-> 0, pm0 |-> 0]

\* the contexts that share the spinlock: a task and an interrupt handler
\* on core 0 and a task on core 1
Agents == {"t0", "i0", "t1"}

Cores == {0, 1}

CoreOf(a) == IF a = "t1" THEN 1 ELSE 0

\* SPINLOCK_INITIALIZER, interrupts enabled on both cores, no call made
SpinIdle ==
    /\ spinlock = [lock |-> 0, irq_state |-> 0]
    /\ cpu = [k \in Cores |-> [primask |-> 0, monitor |-> FALSE]]
    /\ agent = [a \in Agents |->
                  [pc |-> "idle", op |-> "none", tmp |-> 0, holds |-> FALSE,
                   stores |-> 0, crit |-> FALSE, level |-> 0]]

\* the stimer_t objects of the application
Timers == 1..MaxTimers

\* the list_node_t objects: stimer_list is node 0, the node member of timer
\* t is node t, so that list_entry(node t, stimer_t, node) is timer t
stimer_list == 0
Node == {stimer_list} \cup Timers

\* (void*)0xFFFFFFFF, the value list_del leaves in a removed node: the
\* address of no node
POISON == MaxTimers + 1

\* no stimer_service call is in progress, and none has been made
NoService ==
    [pc |-> "idle", pos |-> stimer_list, n |-> stimer_list,
     current_time |-> 0, last_service_time |-> 0, accumulated_drift |-> 0,
     due |-> {}, fired |-> {}]

\* the software timers after stimer_init: stimer_list is empty, no timer
\* has been created, last_service_time = accumulated_drift = 0, and no
\* stimer_service call is in progress
TimerIdle ==
    /\ node = [k \in Node |-> [next |-> k, prev |-> k]]
    /\ timers = [t \in Timers |->
                   [created |-> FALSE, period |-> 0, expire_time |-> 0,
                    auto_reload |-> 0, active |-> 0]]
    /\ tick = 0
    /\ service = NoService
    /\ hazard = "none"

\* nothing is locked, and the software timers are not in use
LockIdle ==
    /\ levels = <<>>
    /\ mutex = 0
    /\ held = <<>>
    /\ SpinIdle
    /\ TimerIdle

\* no context of the preemption model makes a call
IrqIdle ==
    /\ role = [c \in Ctx |-> "none"]
    /\ primask = 0
    /\ stack = <<"task">>
    /\ pc = [c \in Ctx |-> "idle"]
    /\ loc = [c \in Ctx |-> Loc0]
    /\ LockIdle

\* a FIFO that kfifo_init has accepted, before any transfer
FifoInit ==
    /\ \E a \in InitArgs : \E fill \in FillSet :
          /\ fifo = kfifo_init(ZeroFifo, 1, a[1], a[2], NoUB).fifo
          /\ buffer = [b \in 0..(a[1] - 1) |-> fill]
    /\ fault = FALSE
    /\ nIn = 0
    /\ nOut = 0
    /\ ref = <<>>
    /\ last = [op |-> "init", len |-> 0, ret |-> 0, dst |-> <<>>, tail |-> 0,
               fifo0 |-> fifo, buffer0 |-> buffer, ref0 |-> <<>>,
               nIn0 |-> 0, nOut0 |-> 0]
    /\ pcP = "idle"
    /\ pLoc = [len |-> 0, off |-> 0, src |-> <<>>]
    /\ wbuf = {}
    /\ pcC = "idle"
    /\ cLoc = [len |-> 0, off |-> 0]
    /\ cDst = <<>>
    /\ rpend = {}
    /\ delivered = <<>>

Init == FifoInit /\ IrqIdle

(***************************************************************************)
(* Calls made from one context, each running to completion.  A call that   *)
(* copies outside the storage has undefined behaviour: the model records   *)
(* it in fault and follows the program no further.                         *)
(***************************************************************************)
In ==
    /\ ~fault
    /\ nIn < MaxAccepted
    /\ \E len \in LenArgs(fifo) :
          LET src == SrcBuf(nIn * fifo.esize, len * fifo.esize)
              r   == kfifo_in(fifo, buffer, src, len)
          IN  /\ fifo' = r.fifo
              /\ buffer' = r.buffer
              /\ fault' = CopyOutside(fifo, buffer, r.ret, fifo.in)
              /\ nIn' = nIn + r.ret
              /\ ref' = ref \o Take(src, r.ret * fifo.esize)
              /\ last' = Call("in", len, r.ret, <<>>, 0)
    /\ UNCHANGED <<irqVars, lockVars, timerVars, nOut, concVars>>

Out ==
    /\ ~fault
    /\ \E len \in LenArgs(fifo) : \E junk \in JunkOf(fifo, buffer, len) :
          LET r == kfifo_out(fifo, buffer, len, junk)
          IN  /\ fifo' = r.fifo
              /\ buffer' = r.buffer
              /\ fault' = CopyOutside(fifo, buffer, r.ret, fifo.out)
              /\ nOut' = nOut + r.ret
              /\ ref' = Drop(ref, r.ret * fifo.esize)
              /\ last' = Call("out", len, r.ret, r.dst, 0)
    /\ UNCHANGED <<irqVars, lockVars, timerVars, nIn, concVars>>

Peek ==
    /\ ~fault
    /\ \E len \in LenArgs(fifo) : \E junk \in JunkOf(fifo, buffer, len) :
          LET r == kfifo_out_peek(fifo, buffer, len, junk)
          IN  /\ fifo' = r.fifo
              /\ buffer' = r.buffer
              /\ fault' = CopyOutside(fifo, buffer, r.ret, fifo.out)
              /\ last' = Call("peek", len, r.ret, r.dst, 0)
    /\ UNCHANGED <<irqVars, lockVars, timerVars, nIn, nOut, ref, concVars>>

Next == In \/ Out \/ Peek

Spec == Init /\ [][Next]_vars

(***************************************************************************)
(* The whole public interface called from one context: the transfer calls  *)
(* and the cursor operations of src/kfifo.h.  The caller skips any count,  *)
(* also more than is stored.                                               *)
(***************************************************************************)
\* the number of elements a skip of n removes from the reference queue
Removed(n) == Min(n, nIn - nOut)

\* in - out is the number of elements accepted and not removed; a FIFO that
\* a call has left otherwise is followed no further
Intact == kfifo_len(fifo) = nIn - nOut

ApiInit == Init /\ Cardinality(DOMAIN buffer) <= MaxApiSize

OutLinear ==
    /\ ~fault /\ Intact
    /\ \E n \in LenArgs(fifo) :
          LET r == kfifo_out_linear(fifo, n)
          IN  /\ fifo' = r.fifo
              /\ last' = Call("out_linear", n, r.ret, <<>>, r.tail)
    /\ UNCHANGED <<irqVars, lockVars, timerVars, buffer, fault, nIn, nOut,
                   ref, concVars>>

\* the same call in a build that takes kfifo_out_linear from
\* src/math/mymath.h
OutLinearChecked ==
    /\ ~fault /\ Intact
    /\ \E n \in LenArgs(fifo) :
          LET r == kfifo_out_linear_checked(fifo, n)
          IN  /\ fifo' = r.fifo
              /\ last' = Call("out_linear", n, r.ret, <<>>, r.tail)
    /\ UNCHANGED <<irqVars, lockVars, timerVars, buffer, fault, nIn, nOut,
                   ref, concVars>>

Skip ==
    /\ ~fault /\ Intact
    /\ fifo' = kfifo_skip(fifo)
    /\ nOut' = nOut + Removed(1)
    /\ ref' = Drop(ref, Removed(1) * fifo.esize)
    /\ last' = Call("skip", 1, 0, <<>>, 0)
    /\ UNCHANGED <<irqVars, lockVars, timerVars, buffer, fault, nIn, concVars>>

SkipCount ==
    /\ ~fault /\ Intact
    /\ \E count \in LenArgs(fifo) :
          /\ fifo' = kfifo_skip_count(fifo, count)
          /\ nOut' = nOut + Removed(count)
          /\ ref' = Drop(ref, Removed(count) * fifo.esize)
          /\ last' = Call("skip_count", count, 0, <<>>, 0)
    /\ UNCHANGED <<irqVars, lockVars, timerVars, buffer, fault, nIn, concVars>>

ResetOut ==
    /\ ~fault /\ Intact
    /\ fifo' = kfifo_reset_out(fifo)
    /\ nOut' = nIn
    /\ ref' = <<>>
    /\ last' = Call("reset_out", 0, 0, <<>>, 0)
    /\ UNCHANGED <<irqVars, lockVars, timerVars, buffer, fault, nIn, concVars>>

\* the same call in a build that takes kfifo_reset_out from the first
\* header in src/log.h
ResetOutLog ==
    /\ ~fault /\ Intact
    /\ fifo' = kfifo_reset_out_log(fifo)
    /\ nOut' = nIn
    /\ ref' = <<>>
    /\ last' = Call("reset_out", 0, 0, <<>>, 0)
    /\ UNCHANGED <<irqVars, lockVars, timerVars, buffer, fault, nIn, concVars>>

Reset ==
    /\ ~fault /\ Intact
    /\ fifo' = kfifo_reset(fifo)
    /\ nOut' = nIn
    /\ ref' = <<>>
    /\ last' = Call("reset", 0, 0, <<>>, 0)
    /\ UNCHANGED <<irqVars, lockVars, timerVars, buffer, fault, nIn, concVars>>

ApiIn == Intact /\ nIn < MaxApiAccepted /\ In

ApiOut == Intact /\ Out

ApiPeek == Intact /\ Peek

ApiNext ==
    \/ ApiIn \/ ApiOut \/ ApiPeek \/ OutLinear \/ OutLinearChecked
    \/ Skip \/ SkipCount \/ ResetOut \/ ResetOutLog \/ Reset

SpecApi == ApiInit /\ [][ApiNext]_vars

(***************************************************************************)
(* A consumer that takes its data in place, in rounds of kfifo_out_linear  *)
(* and kfifo_skip_count, or with kfifo_out, while no producer call is in   *)
(* progress.                                                               *)
(***************************************************************************)
\* one round with count argument n; prev is the call made before it
LinearRound ==
    /\ ~fault /\ Intact
    /\ \E n \in LenArgs(fifo) :
          LET r == linear_round(fifo, buffer, n)
          IN  /\ fifo' = r.fifo
              /\ nOut' = nOut + r.ret
              /\ ref' = Drop(ref, r.ret * fifo.esize)
              /\ last' = Call("linear_round", n, r.ret, r.dst, r.tail)
                             @@ [prev |-> [op |-> last.op, len |-> last.len,
                                           ret |-> last.ret,
                                           tail |-> last.tail,
                                           used |-> kfifo_len(last.fifo0)]]
    /\ UNCHANGED <<irqVars, lockVars, timerVars, buffer, fault, nIn, concVars>>

LinNext == ApiIn \/ ApiOut \/ LinearRound

SpecLin == ApiInit /\ [][LinNext]_vars

(***************************************************************************)
(* kfifo_init called with any arguments, on a zero-initialized structure   *)
(* and again on a FIFO in use.  The caller uses the FIFO when              *)
(* kfifo_initialized says it may.  A division that traps ends the program. *)
(* A FIFO whose storage is smaller than its capacity is used as well: the  *)
(* first copy beyond the storage sets fault.                               *)
(***************************************************************************)
NoFifo ==
    /\ fifo = ZeroFifo
    /\ buffer = <<>>
    /\ fault = FALSE
    /\ nIn = 0
    /\ nOut = 0
    /\ ref = <<>>
    /\ pcP = "idle"
    /\ pLoc = [len |-> 0, off |-> 0, src |-> <<>>]
    /\ wbuf = {}
    /\ pcC = "idle"
    /\ cLoc = [len |-> 0, off |-> 0]
    /\ cDst = <<>>
    /\ rpend = {}
    /\ delivered = <<>>
    /\ IrqIdle

Uninit ==
    /\ NoFifo
    /\ last = [op |-> "none", len |-> 0, ret |-> 0, dst |-> <<>>, tail |-> 0,
               fifo0 |-> fifo, buffer0 |-> <<>>, ref0 |-> <<>>,
               nIn0 |-> 0, nOut0 |-> 0]

\* kfifo_init(&fifo, data, size, esize); the storage handed over holds
\* whatever the caller left in it
KInit ==
    /\ ~fault
    /\ \E size \in 0..MaxInitSize : \E esize \in 0..MaxEsize :
       \E data \in DataArgs : \E ub \in UBChoicesOf(size, esize) :
       \E fill \in FillSet :
          LET r == kfifo_init(fifo, data, size, esize, ub)
          IN  /\ fifo' = r.fifo
              /\ fault' = r.trap
              /\ buffer' = IF r.trap THEN buffer
                            ELSE [b \in 0..(size - 1) |-> fill]
              /\ nIn' = IF r.trap THEN nIn ELSE 0
              /\ nOut' = IF r.trap THEN nOut ELSE 0
              /\ ref' = IF r.trap THEN ref ELSE <<>>
              /\ last' = [op |-> "kfifo_init", size |-> size,
                          esize |-> esize, data |-> data,
                          ret |-> r.ret, trap |-> r.trap,
                          len |-> 0, dst |-> <<>>, tail |-> 0,
                          nIn0 |-> nIn, nOut0 |-> nOut]
    /\ UNCHANGED <<irqVars, lockVars, timerVars, concVars>>

\* the caller transfers elements of at least one byte
InitIn ==
    /\ kfifo_initialized(fifo) = 1 /\ fifo.esize > 0
    /\ nIn < MaxInitAccepted
    /\ In

InitOut ==
    /\ kfifo_initialized(fifo) = 1 /\ fifo.esize > 0
    /\ Out

InitNext == KInit \/ InitIn \/ InitOut

SpecInit == Uninit /\ [][InitNext]_vars

(***************************************************************************)
(* One kfifo_in caller and one kfifo_out caller on one FIFO, their calls   *)
(* interleaved step by step.  A store of a memcpy reaches the storage, and *)
(* a load of a memcpy reads the storage, at any moment between the memcpy  *)
(* and the next __DMB() of the same context; a context that is preempted   *)
(* by the other on the same core sees them take effect at once, which is   *)
(* one of these orders.                                                    *)
(***************************************************************************)
\* the stores memcpy(data + at, src + from, n) issues: <<address, byte>>
Stores(at, src, from, n) ==
    {<<at + i, src[from + i + 1]>> : i \in 0..(n - 1)}

\* the loads memcpy(dst + to, data + at, n) issues: <<index in dst, address>>
Loads(to, at, n) == {<<to + i + 1, at + i>> : i \in 0..(n - 1)}

\* the storage once the stores in wb have reached it
Commit(buf, wb) ==
    [a \in DOMAIN buf |->
        IF \E st \in wb : st[1] = a
        THEN (CHOOSE st \in wb : st[1] = a)[2] ELSE buf[a]]

\* the destination once the loads in rp have been performed; dst holds the
\* bytes whose loads have been performed, by index
Perform(buf, dst, rp) ==
    [i \in DOMAIN dst \cup {ld[1] : ld \in rp} |->
        IF \E ld \in rp : ld[1] = i
        THEN buf[(CHOOSE ld \in rp : ld[1] = i)[2]] ELSE dst[i]]

\* a barrier that orders nothing
copy_in_nodmb(buf, wb) == [buffer |-> buf, wbuf |-> wb]

\* the __DMB() of kfifo_copy_in: no store issued before it is still pending
copy_in_dmb(buf, wb) == [buffer |-> Commit(buf, wb), wbuf |-> {}]

\* a barrier that orders nothing
copy_out_nodmb(buf, dst, rp) == [dst |-> dst, rpend |-> rp]

\* the __DMB() of kfifo_copy_out: no load issued before it is still pending
copy_out_dmb(buf, dst, rp) == [dst |-> Perform(buf, dst, rp), rpend |-> {}]

Outside(buf, addrs) == \E a \in addrs : a \notin DOMAIN buf

ConcInit == Init /\ Cardinality(DOMAIN buffer) <= MaxConcSize

\* kfifo_in: l = kfifo_unused(fifo); if (len > l) len = l; and the
\* arguments of kfifo_copy_in
P_Call ==
    /\ ~fault /\ pcP = "idle"
    /\ nIn < MaxConcAccepted
    /\ \E len0 \in LenArgs(fifo) :
          LET l   == kfifo_unused(fifo)
              len == IF len0 > l THEN l ELSE len0
          IN  pLoc' = [len |-> len, off |-> fifo.in,
                       src |-> SrcBuf(nIn * fifo.esize, len0 * fifo.esize)]
    /\ pcP' = "copy1"
    /\ UNCHANGED <<irqVars, lockVars, timerVars, fifo, buffer, nIn, nOut,
                   seqVars,
                   wbuf, pcC, cLoc, cDst, rpend, delivered>>

\* kfifo_copy_in: the first memcpy
P_Copy1 ==
    /\ ~fault /\ pcP = "copy1"
    /\ LET g  == CopyGeom(fifo, pLoc.len, pLoc.off)
           st == Stores(g.off, pLoc.src, 0, g.l)
       IN  /\ wbuf' = wbuf \cup {x \in st : x[1] \in DOMAIN buffer}
           /\ fault' = Outside(buffer, {x[1] : x \in st})
    /\ pcP' = "copy2"
    /\ UNCHANGED <<irqVars, lockVars, timerVars, fifo, buffer, nIn, nOut, ref,
                   last,
                   pLoc, pcC, cLoc, cDst, rpend, delivered>>

\* kfifo_copy_in: the second memcpy
P_Copy2 ==
    /\ ~fault /\ pcP = "copy2"
    /\ LET g  == CopyGeom(fifo, pLoc.len, pLoc.off)
           st == Stores(0, pLoc.src, g.l, g.len - g.l)
       IN  /\ wbuf' = wbuf \cup {x \in st : x[1] \in DOMAIN buffer}
           /\ fault' = Outside(buffer, {x[1] : x \in st})
    /\ pcP' = "dmb"
    /\ UNCHANGED <<irqVars, lockVars, timerVars, fifo, buffer, nIn, nOut, ref,
                   last,
                   pLoc, pcC, cLoc, cDst, rpend, delivered>>

\* kfifo_copy_in: __DMB()
P_Dmb ==
    /\ ~fault /\ pcP = "dmb"
    /\ LET r == copy_in_dmb(buffer, wbuf)
       IN  buffer' = r.buffer /\ wbuf' = r.wbuf
    /\ pcP' = "pub"
    /\ UNCHANGED <<irqVars, lockVars, timerVars, fifo, nIn, nOut, seqVars,
                   pLoc, pcC, cLoc, cDst, rpend, delivered>>

\* a kfifo_in that returns without fifo->in += len
P_Pub_nopublish ==
    /\ ~fault /\ pcP = "pub"
    /\ pcP' = "idle"
    /\ UNCHANGED <<irqVars, lockVars, timerVars, fifo, buffer, nIn, nOut,
                   seqVars,
                   pLoc, wbuf, pcC, cLoc, cDst, rpend, delivered>>

\* kfifo_in: fifo->in += len; return len
P_Pub ==
    /\ ~fault /\ pcP = "pub"
    /\ fifo' = [fifo EXCEPT !.in = U(fifo.in + pLoc.len)]
    /\ nIn' = nIn + pLoc.len
    /\ pcP' = "idle"
    /\ UNCHANGED <<irqVars, lockVars, timerVars, buffer, nOut, seqVars,
                   pLoc, wbuf, pcC, cLoc, cDst, rpend, delivered>>

\* a pending store of the producer reaches the storage
StoreDrains ==
    /\ ~fault
    /\ \E st \in wbuf :
          /\ buffer' = [buffer EXCEPT ![st[1]] = st[2]]
          /\ wbuf' = wbuf \ {st}
    /\ UNCHANGED <<irqVars, lockVars, timerVars, fifo, nIn, nOut, seqVars,
                   pcP, pLoc, pcC, cLoc, cDst, rpend, delivered>>

\* kfifo_out -> kfifo_out_peek: l = fifo->in - fifo->out; if (len > l)
\* len = l; and the arguments of kfifo_copy_out
C_Call ==
    /\ ~fault /\ pcC = "idle"
    /\ \E len0 \in LenArgs(fifo) :
          LET l   == U(fifo.in - fifo.out)
              len == IF len0 > l THEN l ELSE len0
          IN  cLoc' = [len |-> len, off |-> fifo.out]
    /\ cDst' = <<>>
    /\ pcC' = "copy1"
    /\ UNCHANGED <<irqVars, lockVars, timerVars, fifo, buffer, nIn, nOut,
                   seqVars,
                   pcP, pLoc, wbuf, rpend, delivered>>

\* kfifo_copy_out: the first memcpy
C_Copy1 ==
    /\ ~fault /\ pcC = "copy1"
    /\ LET g  == CopyGeom(fifo, cLoc.len, cLoc.off)
           ld == Loads(0, g.off, g.l)
       IN  /\ cDst' = <<>>
           /\ rpend' = rpend \cup {x \in ld : x[2] \in DOMAIN buffer}
           /\ fault' = Outside(buffer, {x[2] : x \in ld})
    /\ pcC' = "copy2"
    /\ UNCHANGED <<irqVars, lockVars, timerVars, fifo, buffer, nIn, nOut, ref,
                   last,
                   pcP, pLoc, wbuf, cLoc, delivered>>

\* kfifo_copy_out: the second memcpy
C_Copy2 ==
    /\ ~fault /\ pcC = "copy2"
    /\ LET g  == CopyGeom(fifo, cLoc.len, cLoc.off)
           ld == Loads(g.l, 0, g.len - g.l)
       IN  /\ cDst' = cDst
           /\ rpend' = rpend \cup {x \in ld : x[2] \in DOMAIN buffer}
           /\ fault' = Outside(buffer, {x[2] : x \in ld})
    /\ pcC' = "dmb"
    /\ UNCHANGED <<irqVars, lockVars, timerVars, fifo, buffer, nIn, nOut, ref,
                   last,
                   pcP, pLoc, wbuf, cLoc, delivered>>

\* kfifo_copy_out: __DMB()
C_Dmb ==
    /\ ~fault /\ pcC = "dmb"
    /\ LET r == copy_out_dmb(buffer, cDst, rpend)
       IN  cDst' = r.dst /\ rpend' = r.rpend
    /\ pcC' = "pub"
    /\ UNCHANGED <<irqVars, lockVars, timerVars, fifo, buffer, nIn, nOut,
                   seqVars,
                   pcP, pLoc, wbuf, cLoc, delivered>>

\* kfifo_out: fifo->out += len
C_Pub ==
    /\ ~fault /\ pcC = "pub"
    /\ fifo' = [fifo EXCEPT !.out = U(fifo.out + cLoc.len)]
    /\ nOut' = nOut + cLoc.len
    /\ pcC' = "ret"
    /\ UNCHANGED <<irqVars, lockVars, timerVars, buffer, nIn, seqVars,
                   pcP, pLoc, wbuf, cLoc, cDst, rpend, delivered>>

\* kfifo_out: return len; the caller has the data once its loads are done
C_Ret ==
    /\ ~fault /\ pcC = "ret"
    /\ rpend = {}
    /\ delivered' = delivered \o [i \in 1..Cardinality(DOMAIN cDst) |-> cDst[i]]
    /\ pcC' = "idle"
    /\ UNCHANGED <<irqVars, lockVars, timerVars, fifo, buffer, nIn, nOut,
                   seqVars,
                   pcP, pLoc, wbuf, cLoc, cDst, rpend>>

\* a pending load of the consumer reads the storage
LoadPerforms ==
    /\ ~fault
    /\ \E ld \in rpend :
          /\ cDst' = Perform(buffer, cDst, {ld})
          /\ rpend' = rpend \ {ld}
    /\ UNCHANGED <<irqVars, lockVars, timerVars, fifo, buffer, nIn, nOut,
                   seqVars,
                   pcP, pLoc, wbuf, pcC, cLoc, delivered>>

SpscNext ==
    \/ P_Call \/ P_Copy1 \/ P_Copy2 \/ P_Dmb \/ P_Pub \/ StoreDrains
    \/ C_Call \/ C_Copy1 \/ C_Copy2 \/ C_Dmb \/ C_Pub \/ C_Ret
    \/ LoadPerforms

SpecSpsc == ConcInit /\ [][SpscNext]_vars

(***************************************************************************)
(* One kfifo_in caller and a consumer that takes its data in place: it     *)
(* calls kfifo_out_linear, uses the window in the storage and then calls   *)
(* kfifo_skip_count with the count it was given.  The producer's steps are *)
(* those above.                                                            *)
(***************************************************************************)
\* ret = kfifo_out_linear(fifo, &tail, n); nIn0 is the number of elements
\* accepted so far
W_Call ==
    /\ ~fault /\ pcC = "idle"
    /\ \E n \in LenArgs(fifo) :
          LET r == kfifo_out_linear(fifo, n)
          IN  /\ fifo' = r.fifo
              /\ cLoc' = [len |-> r.ret, off |-> r.tail, nIn0 |-> nIn]
    /\ pcC' = "window"
    /\ UNCHANGED <<irqVars, lockVars, timerVars, buffer, nIn, nOut, seqVars,
                   pcP, pLoc, wbuf, cDst, rpend, delivered>>

\* the consumer is done with the ret elements at data + tail * esize and
\* calls kfifo_skip_count(fifo, ret)
W_Skip ==
    /\ ~fault /\ pcC = "window"
    /\ fifo' = kfifo_skip_count(fifo, cLoc.len)
    /\ nOut' = nOut + cLoc.len
    /\ delivered' = delivered \o MemcpyOut(buffer, cLoc.off * fifo.esize,
                                           cLoc.len * fifo.esize, 0)
    /\ pcC' = "idle"
    /\ UNCHANGED <<irqVars, lockVars, timerVars, buffer, nIn, seqVars,
                   pcP, pLoc, wbuf, cLoc, cDst, rpend>>

WinNext ==
    \/ P_Call \/ P_Copy1 \/ P_Copy2 \/ P_Dmb \/ P_Pub \/ StoreDrains
    \/ W_Call \/ W_Skip

SpecWin == ConcInit /\ [][WinNext]_vars

(***************************************************************************)
(* One kfifo_in caller, its steps those above, and a consumer that calls   *)
(* kfifo_out and kfifo_reset_out between them.  The reset reads one cursor *)
(* and then writes the other.                                              *)
(***************************************************************************)
\* kfifo_reset_out of src/kfifo.h, fifo->out = fifo->in: the load of in;
\* nIn0 is the number of elements accepted so far
R_Load ==
    /\ ~fault /\ pcC = "idle"
    /\ cLoc' = [len |-> 0, off |-> fifo.in, to |-> "out", nIn0 |-> nIn]
    /\ pcC' = "reset"
    /\ UNCHANGED <<irqVars, lockVars, timerVars, fifo, buffer, nIn, nOut,
                   seqVars,
                   pcP, pLoc, wbuf, cDst, rpend, delivered>>

\* kfifo_reset_out of the first header in src/log.h,
\* ((fifo)->in = (fifo)->out): the load of out
R_LoadLog ==
    /\ ~fault /\ pcC = "idle"
    /\ cLoc' = [len |-> 0, off |-> fifo.out, to |-> "in", nIn0 |-> nIn]
    /\ pcC' = "reset"
    /\ UNCHANGED <<irqVars, lockVars, timerVars, fifo, buffer, nIn, nOut,
                   seqVars,
                   pcP, pLoc, wbuf, cDst, rpend, delivered>>

\* the store of the value loaded; what was accepted before the load of in
\* is dropped
R_Store ==
    /\ ~fault /\ pcC = "reset"
    /\ fifo' = IF cLoc.to = "out" THEN [fifo EXCEPT !.out = cLoc.off]
               ELSE [fifo EXCEPT !.in = cLoc.off]
    /\ nOut' = IF cLoc.to = "out" THEN cLoc.nIn0 ELSE nOut
    /\ last' = [op |-> "reset_out", to |-> cLoc.to, fifo0 |-> fifo,
                nIn0 |-> cLoc.nIn0, nIn |-> nIn, nOut0 |-> nOut]
    /\ pcC' = "idle"
    /\ UNCHANGED <<irqVars, lockVars, timerVars, buffer, nIn, fault, ref,
                   pcP, pLoc, wbuf, cLoc, cDst, rpend, delivered>>

\* a kfifo_out made between two steps of the producer
R_Out ==
    /\ ~fault /\ pcC = "idle"
    /\ \E len \in LenArgs(fifo) :
          LET r == kfifo_out(fifo, buffer, len, 0)
          IN  /\ fifo' = r.fifo
              /\ nOut' = nOut + r.ret
              /\ delivered' = r.dst
              /\ last' = [op |-> "out", to |-> "out", fifo0 |-> fifo,
                          nIn0 |-> nIn, nIn |-> nIn, nOut0 |-> nOut]
    /\ UNCHANGED <<irqVars, lockVars, timerVars, buffer, nIn, fault, ref,
                   pcP, pLoc, wbuf, pcC, cLoc, cDst, rpend>>

\* the cursors are the counts of the elements accepted and removed; a FIFO
\* that a reset has left otherwise is followed no further
RstIntact == fifo.in = U(nIn) /\ fifo.out = U(nOut)

RstNext ==
    \/ RstIntact /\ P_Call
    \/ RstIntact /\ P_Copy1
    \/ RstIntact /\ P_Copy2
    \/ RstIntact /\ P_Dmb
    \/ RstIntact /\ P_Pub
    \/ RstIntact /\ StoreDrains
    \/ RstIntact /\ R_Out
    \/ RstIntact /\ R_Load
    \/ RstIntact /\ R_LoadLog
    \/ RstIntact /\ R_Store

SpecRst == ConcInit /\ [][RstNext]_vars

(***************************************************************************)
(* A producer that offers MaxConcAccepted elements and calls kfifo_in with *)
(* what is left of them until all are accepted, and a consumer that calls  *)
(* kfifo_out for one element or more again and again.  The statements of   *)
(* the calls are those of the producer and the consumer above; each of the *)
(* two contexts keeps running.                                             *)
(***************************************************************************)
\* kfifo_in(fifo, rest, left) with left > 0 elements still to be accepted
P_Retry ==
    /\ ~fault /\ pcP = "idle"
    /\ nIn < MaxConcAccepted
    /\ LET len0 == MaxConcAccepted - nIn
           l    == kfifo_unused(fifo)
           len  == IF len0 > l THEN l ELSE len0
       IN  pLoc' = [len |-> len, off |-> fifo.in,
                    src |-> SrcBuf(nIn * fifo.esize, len0 * fifo.esize)]
    /\ pcP' = "copy1"
    /\ UNCHANGED <<irqVars, lockVars, timerVars, fifo, buffer, nIn, nOut,
                   seqVars,
                   wbuf, pcC, cLoc, cDst, rpend, delivered>>

\* kfifo_out(fifo, dst, len) with len > 0
C_Retry ==
    /\ ~fault /\ pcC = "idle"
    /\ \E len0 \in LenArgs(fifo) \ {0} :
          LET l   == U(fifo.in - fifo.out)
              len == IF len0 > l THEN l ELSE len0
          IN  cLoc' = [len |-> len, off |-> fifo.out]
    /\ cDst' = <<>>
    /\ pcC' = "copy1"
    /\ UNCHANGED <<irqVars, lockVars, timerVars, fifo, buffer, nIn, nOut,
                   seqVars,
                   pcP, pLoc, wbuf, rpend, delivered>>

ProducerStep == P_Retry \/ P_Copy1 \/ P_Copy2 \/ P_Dmb \/ P_Pub

ConsumerStep == C_Retry \/ C_Copy1 \/ C_Copy2 \/ C_Dmb \/ C_Pub \/ C_Ret

LiveNext == ProducerStep \/ ConsumerStep \/ StoreDrains \/ LoadPerforms

SpecLive ==
    /\ ConcInit
    /\ [][LiveNext]_vars
    /\ WF_vars(ProducerStep)
    /\ WF_vars(ConsumerStep)

(***************************************************************************)
(* Several contexts of one core on one FIFO: the locked calls of           *)
(* src/kfifo.c made by a task and an interrupt handler, and the unlocked   *)
(* call of the opposite side made by another handler.  Each step below is  *)
(* one statement of the call; a step is taken by the running context.      *)
(* Memory is that of one core: a preempting context sees every store made  *)
(* before it started.                                                      *)
(***************************************************************************)
\* the calls the contexts make: two producers with kfifo_in_locked and a
\* kfifo_out consumer; two consumers with kfifo_out_locked and a kfifo_in
\* producer; two consumers with kfifo_out_linear_locked followed by
\* kfifo_skip_count and a kfifo_in producer
Roles ==
    {[task |-> "in_locked", isr1 |-> "out", isr2 |-> "in_locked"],
     [task |-> "out_locked", isr1 |-> "in", isr2 |-> "out_locked"],
     [task |-> "linear_locked", isr1 |-> "in", isr2 |-> "linear_locked"]}

\* the preemptible producer unlocked and the preempting one locked; both
\* unlocked; the preemptible producer locked and the preempting one unlocked
MixRoles ==
    {[task |-> "in", isr1 |-> "out", isr2 |-> "in_locked"],
     [task |-> "in", isr1 |-> "out", isr2 |-> "in"],
     [task |-> "in_locked", isr1 |-> "out", isr2 |-> "in"]}

\* the task makes the locked calls, inside or outside of sections it has
\* locked with irq_lock or kmutex_lock, and one handler makes the unlocked
\* call of the opposite side
NestRoles ==
    {[task |-> "in_locked", isr1 |-> "out", isr2 |-> "none"],
     [task |-> "out_locked", isr1 |-> "in", isr2 |-> "none"],
     [task |-> "linear_locked", isr1 |-> "in", isr2 |-> "none"]}

Locked(c) == role[c] \in {"in_locked", "out_locked", "linear_locked"}

Producers == {c \in Ctx : role[c] \in {"in", "in_locked"}}

Consumers == Ctx \ Producers

\* __get_PRIMASK(), __disable_irq() and __set_PRIMASK(v) as functions of
\* the register
get_PRIMASK(pm) == pm

\* a __disable_irq() that leaves the register alone
disable_irq_nop(pm) == pm

disable_irq(pm) == 1

\* a __set_PRIMASK(v) that unmasks whatever v is
set_PRIMASK_enable(pm, v) == 0

set_PRIMASK(pm, v) == v

\* __enable_irq()
enable_irq(pm) == 0

\* the source buffer of a kfifo_in call of context c: the next nbytes bytes
\* of the stream of c, given that k bytes of it were accepted before; the
\* streams of the contexts start at 1, 65 and 129
SrcOf(c, k, nbytes) == [i \in 1..nbytes |-> 64 * Prio[c] + k + i]

\* the bytes of sequence s that come from the stream of context c
FromStream(s, c) == SelectSeq(s, LAMBDA b : (b - 1) \div 64 = Prio[c])

\* the count arguments of the calls
IrqLenArgs(f) == 1..kfifo_size(f)

IrqInit ==
    /\ FifoInit
    /\ Cardinality(DOMAIN buffer) <= MaxIrqSize
    /\ role \in Roles
    /\ primask = 0
    /\ stack = <<"task">>
    /\ pc = [c \in Ctx |-> "idle"]
    /\ loc = [c \in Ctx |-> Loc0]
    /\ LockIdle

\* the number of calls the contexts may make together
CallBudget ==
    IF role \in MixRoles THEN MaxMixCalls
    ELSE IF role \in NestRoles THEN MaxNestCalls
    ELSE MaxIrqCalls

\* the calls the contexts have made so far
TotalCalls == loc["task"].calls + loc["isr1"].calls + loc["isr2"].calls

\* context c is the one the core executes
Running(c) == ~fault /\ stack[Len(stack)] = c

\* context c is at the first statement of kfifo_in, kfifo_out or
\* kfifo_out_linear
AtCall(c) == Running(c) /\ pc[c] = (IF Locked(c) THEN "call" ELSE "entry")

\* the interrupt of handler c is taken
IrqEntry(c) ==
    /\ ~fault /\ c \in ISRs /\ role[c] /= "none"
    /\ primask = 0
    /\ \A i \in 1..Len(stack) : Prio[stack[i]] < Prio[c]
    /\ TotalCalls < CallBudget
    /\ stack' = Append(stack, c)
    /\ pc' = [pc EXCEPT ![c] = "entry"]
    /\ loc' = [loc EXCEPT ![c].calls = @ + 1, ![c].pm0 = primask]
    /\ UNCHANGED <<fifo, buffer, nIn, nOut, seqVars, concVars, lockVars,
                   timerVars, role, primask>>

\* the task makes its next call
TaskCall ==
    /\ Running("task") /\ pc["task"] = "idle"
    /\ TotalCalls < CallBudget
    /\ pc' = [pc EXCEPT !["task"] = "entry"]
    /\ loc' = [loc EXCEPT !["task"].calls = @ + 1, !["task"].pm0 = primask]
    /\ UNCHANGED <<fifo, buffer, nIn, nOut, seqVars, concVars,
                   lockVars, timerVars, role, primask, stack>>

\* primask = __get_PRIMASK();
GetPrimask(c) ==
    /\ Running(c) /\ pc[c] = "entry" /\ Locked(c)
    /\ loc' = [loc EXCEPT ![c].saved = get_PRIMASK(primask)]
    /\ pc' = [pc EXCEPT ![c] = "disable"]
    /\ UNCHANGED <<fifo, buffer, nIn, nOut, seqVars, concVars,
                   lockVars, timerVars, role, primask, stack>>

\* __disable_irq();
DisableIrq(c) ==
    /\ Running(c) /\ pc[c] = "disable"
    /\ primask' = disable_irq(primask)
    /\ pc' = [pc EXCEPT ![c] = "call"]
    /\ UNCHANGED <<fifo, buffer, nIn, nOut, seqVars, concVars,
                   lockVars, timerVars, role, stack, loc>>

\* __set_PRIMASK(primask);
SetPrimask(c) ==
    /\ Running(c) /\ pc[c] = "restore"
    /\ primask' = set_PRIMASK(primask, loc[c].saved)
    /\ pc' = [pc EXCEPT ![c] = IF role[c] = "linear_locked" THEN "read"
                                ELSE "ret"]
    /\ UNCHANGED <<fifo, buffer, nIn, nOut, seqVars, concVars,
                   lockVars, timerVars, role, stack, loc>>

\* return: the task goes on, a handler ends and the preempted context
\* resumes
Return(c) ==
    /\ Running(c) /\ pc[c] = "ret"
    /\ pc' = [pc EXCEPT ![c] = "idle"]
    /\ stack' = IF c \in ISRs THEN SubSeq(stack, 1, Len(stack) - 1) ELSE stack
    /\ UNCHANGED <<fifo, buffer, nIn, nOut, seqVars, concVars,
                   lockVars, timerVars, role, primask, loc>>

\* kfifo_in: l = kfifo_unused(fifo); if (len > l) len = l; and the
\* arguments of kfifo_copy_in
InCall(c) ==
    /\ AtCall(c) /\ role[c] \in {"in", "in_locked"}
    /\ \E len0 \in IrqLenArgs(fifo) :
          LET l   == kfifo_unused(fifo)
              len == IF len0 > l THEN l ELSE len0
          IN  loc' = [loc EXCEPT ![c].len = len, ![c].off = fifo.in]
    /\ pc' = [pc EXCEPT ![c] = "copy1"]
    /\ UNCHANGED <<fifo, buffer, nIn, nOut, seqVars, concVars,
                   lockVars, timerVars, role, primask, stack>>

\* kfifo_copy_in: the first memcpy
InCopy1(c) ==
    /\ Running(c) /\ pc[c] = "copy1" /\ c \in Producers
    /\ LET g   == CopyGeom(fifo, loc[c].len, loc[c].off)
           src == SrcOf(c, loc[c].acc * fifo.esize, g.len)
       IN  /\ buffer' = MemcpyIn(buffer, g.off, src, 0, g.l)
           /\ fault' = Outside(buffer, g.off..(g.off + g.l - 1))
    /\ pc' = [pc EXCEPT ![c] = "copy2"]
    /\ UNCHANGED <<fifo, nIn, nOut, ref, last, concVars,
                   lockVars, timerVars, role, primask, stack, loc>>

\* kfifo_copy_in: the second memcpy and __DMB()
InCopy2(c) ==
    /\ Running(c) /\ pc[c] = "copy2" /\ c \in Producers
    /\ LET g   == CopyGeom(fifo, loc[c].len, loc[c].off)
           src == SrcOf(c, loc[c].acc * fifo.esize, g.len)
       IN  /\ buffer' = MemcpyIn(buffer, 0, src, g.l, g.len - g.l)
           /\ fault' = Outside(buffer, 0..(g.len - g.l - 1))
    /\ pc' = [pc EXCEPT ![c] = "load"]
    /\ UNCHANGED <<fifo, nIn, nOut, ref, last, concVars,
                   lockVars, timerVars, role, primask, stack, loc>>

\* fifo->in += len: the load of in
InPubLoad(c) ==
    /\ Running(c) /\ pc[c] = "load" /\ c \in Producers
    /\ loc' = [loc EXCEPT ![c].tmp = fifo.in]
    /\ pc' = [pc EXCEPT ![c] = "store"]
    /\ UNCHANGED <<fifo, buffer, nIn, nOut, seqVars, concVars,
                   lockVars, timerVars, role, primask, stack>>

\* fifo->in += len: the store of in; return len
InPubStore(c) ==
    /\ Running(c) /\ pc[c] = "store" /\ c \in Producers
    /\ fifo' = [fifo EXCEPT !.in = U(loc[c].tmp + loc[c].len)]
    /\ nIn' = nIn + loc[c].len
    /\ loc' = [loc EXCEPT ![c].acc = @ + loc[c].len]
    /\ pc' = [pc EXCEPT ![c] = IF Locked(c) THEN "restore" ELSE "ret"]
    /\ UNCHANGED <<buffer, nOut, seqVars, concVars, lockVars, timerVars,
                   role, primask, stack>>

\* kfifo_out -> kfifo_out_peek: l = fifo->in - fifo->out; if (len > l)
\* len = l; and the arguments of kfifo_copy_out
OutCall(c) ==
    /\ AtCall(c) /\ role[c] \in {"out", "out_locked"}
    /\ \E len0 \in IrqLenArgs(fifo) :
          LET l   == U(fifo.in - fifo.out)
              len == IF len0 > l THEN l ELSE len0
          IN  loc' = [loc EXCEPT ![c].len = len, ![c].off = fifo.out,
                                 ![c].dst = <<>>]
    /\ pc' = [pc EXCEPT ![c] = "copy1"]
    /\ UNCHANGED <<fifo, buffer, nIn, nOut, seqVars, concVars,
                   lockVars, timerVars, role, primask, stack>>

\* kfifo_copy_out: the first memcpy
OutCopy1(c) ==
    /\ Running(c) /\ pc[c] = "copy1" /\ c \in Consumers
    /\ LET g == CopyGeom(fifo, loc[c].len, loc[c].off)
       IN  /\ loc' = [loc EXCEPT ![c].dst = MemcpyOut(buffer, g.off, g.l, 0)]
           /\ fault' = Outside(buffer, g.off..(g.off + g.l - 1))
    /\ pc' = [pc EXCEPT ![c] = "copy2"]
    /\ UNCHANGED <<fifo, buffer, nIn, nOut, ref, last, concVars,
                   lockVars, timerVars, role, primask, stack>>

\* kfifo_copy_out: the second memcpy and __DMB()
OutCopy2(c) ==
    /\ Running(c) /\ pc[c] = "copy2" /\ c \in Consumers
    /\ LET g == CopyGeom(fifo, loc[c].len, loc[c].off)
       IN  /\ loc' = [loc EXCEPT ![c].dst =
                         @ \o MemcpyOut(buffer, 0, g.len - g.l, 0)]
           /\ fault' = Outside(buffer, 0..(g.len - g.l - 1))
    /\ pc' = [pc EXCEPT ![c] = "load"]
    /\ UNCHANGED <<fifo, buffer, nIn, nOut, ref, last, concVars,
                   lockVars, timerVars, role, primask, stack>>

\* fifo->out += len: the load of out
OutPubLoad(c) ==
    /\ Running(c) /\ pc[c] = "load" /\ c \in Consumers
    /\ loc' = [loc EXCEPT ![c].tmp = fifo.out]
    /\ pc' = [pc EXCEPT ![c] = "store"]
    /\ UNCHANGED <<fifo, buffer, nIn, nOut, seqVars, concVars,
                   lockVars, timerVars, role, primask, stack>>

\* fifo->out += len: the store of out; return len, the caller has the data
OutPubStore(c) ==
    /\ Running(c) /\ pc[c] = "store" /\ c \in Consumers
    /\ fifo' = [fifo EXCEPT !.out = U(loc[c].tmp + loc[c].len)]
    /\ nOut' = nOut + loc[c].len
    /\ delivered' = delivered \o loc[c].dst
    /\ pc' = [pc EXCEPT ![c] = IF Locked(c) THEN "restore" ELSE "ret"]
    /\ UNCHANGED <<buffer, nIn, seqVars, pcP, pLoc, wbuf, pcC, cLoc, cDst,
                   rpend, lockVars, timerVars, role, primask, stack, loc>>

\* ret = kfifo_out_linear(fifo, tail, n);
LinearCall(c) ==
    /\ AtCall(c) /\ role[c] = "linear_locked"
    /\ \E n \in IrqLenArgs(fifo) :
          LET r == kfifo_out_linear(fifo, n)
          IN  /\ fifo' = r.fifo
              /\ loc' = [loc EXCEPT ![c].len = r.ret, ![c].tail = r.tail]
    /\ pc' = [pc EXCEPT ![c] = "restore"]
    /\ UNCHANGED <<buffer, nIn, nOut, seqVars, concVars,
                   lockVars, timerVars, role, primask, stack>>

\* the caller uses the ret elements at data + tail * esize in place
LinearRead(c) ==
    /\ Running(c) /\ pc[c] = "read"
    /\ LET dst == MemcpyOut(buffer, loc[c].tail * fifo.esize,
                            loc[c].len * fifo.esize, 0)
       IN  /\ loc' = [loc EXCEPT ![c].dst = dst]
           /\ delivered' = delivered \o dst
    /\ pc' = [pc EXCEPT ![c] = "skipload"]
    /\ UNCHANGED <<fifo, buffer, nIn, nOut, seqVars, pcP, pLoc, wbuf, pcC,
                   cLoc, cDst, rpend, lockVars, timerVars, role, primask,
                   stack>>

\* kfifo_skip_count(fifo, ret): fifo->out += count, the load of out
SkipLoad(c) ==
    /\ Running(c) /\ pc[c] = "skipload"
    /\ loc' = [loc EXCEPT ![c].tmp = fifo.out]
    /\ pc' = [pc EXCEPT ![c] = "skipstore"]
    /\ UNCHANGED <<fifo, buffer, nIn, nOut, seqVars, concVars,
                   lockVars, timerVars, role, primask, stack>>

\* kfifo_skip_count(fifo, ret): fifo->out += count, the store of out
SkipStore(c) ==
    /\ Running(c) /\ pc[c] = "skipstore"
    /\ fifo' = kfifo_skip_count([fifo EXCEPT !.out = loc[c].tmp], loc[c].len)
    /\ nOut' = nOut + loc[c].len
    /\ pc' = [pc EXCEPT ![c] = "ret"]
    /\ UNCHANGED <<buffer, nIn, seqVars, concVars, lockVars, timerVars,
                   role, primask, stack, loc>>

IrqNext ==
    \/ TaskCall
    \/ \E c \in Ctx :
        \/ IrqEntry(c) \/ GetPrimask(c) \/ DisableIrq(c) \/ SetPrimask(c)
        \/ Return(c)
        \/ InCall(c) \/ InCopy1(c) \/ InCopy2(c) \/ InPubLoad(c)
        \/ InPubStore(c)
        \/ OutCall(c) \/ OutCopy1(c) \/ OutCopy2(c) \/ OutPubLoad(c)
        \/ OutPubStore(c)
        \/ LinearCall(c) \/ LinearRead(c) \/ SkipLoad(c) \/ SkipStore(c)

SpecIrq == IrqInit /\ [][IrqNext]_vars

(***************************************************************************)
(* Two producer contexts of which at least one calls the unlocked          *)
(* kfifo_in, and a kfifo_out consumer: the same statements as above with   *)
(* other callers.                                                          *)
(***************************************************************************)
MixInit ==
    /\ FifoInit
    /\ Cardinality(DOMAIN buffer) <= MaxIrqSize
    /\ role \in MixRoles
    /\ primask = 0
    /\ stack = <<"task">>
    /\ pc = [c \in Ctx |-> "idle"]
    /\ loc = [c \in Ctx |-> Loc0]
    /\ LockIdle

MixNext ==
    \/ TaskCall
    \/ \E c \in Ctx :
        \/ IrqEntry(c) \/ GetPrimask(c) \/ DisableIrq(c) \/ SetPrimask(c)
        \/ Return(c)
        \/ InCall(c) \/ InCopy1(c) \/ InCopy2(c) \/ InPubLoad(c)
        \/ InPubStore(c)
        \/ OutCall(c) \/ OutCopy1(c) \/ OutCopy2(c) \/ OutPubLoad(c)
        \/ OutPubStore(c)

SpecMix == MixInit /\ [][MixNext]_vars

(***************************************************************************)
(* The locks of kmutex.c in the build without an operating system, taken   *)
(* and released by the task in properly nested pairs around and between    *)
(* its locked FIFO calls, with interrupts enabled or masked at the start.  *)
(***************************************************************************)
NestInit ==
    /\ FifoInit
    /\ Cardinality(DOMAIN buffer) <= MaxIrqSize
    /\ role \in NestRoles
    /\ primask \in {0, 1}
    /\ stack = <<"task">>
    /\ pc = [c \in Ctx |-> "idle"]
    /\ loc = [c \in Ctx |-> Loc0]
    /\ LockIdle

\* the task is between two calls and may start another acquisition
CanAcquire ==
    /\ Running("task") /\ pc["task"] = "idle"
    /\ Len(held) < MaxNest
    /\ TotalCalls < CallBudget

\* the latest acquisition of the task that is not released is of this kind
Innermost(kind) ==
    /\ Running("task") /\ pc["task"] = "idle"
    /\ held /= <<>> /\ held[Len(held)].kind = kind

\* the record of a completed acquire or release: the PRIMASK value before
\* the acquisition it belongs to
LockCall(op, pm0) == [op |-> op, pm0 |-> pm0]

\* irq_lock(): uint32_t primask = __get_PRIMASK();
IrqLockGet ==
    /\ CanAcquire
    /\ loc' = [loc EXCEPT !["task"].saved = get_PRIMASK(primask),
                          !["task"].calls = @ + 1,
                          !["task"].pm0 = primask]
    /\ pc' = [pc EXCEPT !["task"] = "lock_disable"]
    /\ UNCHANGED <<fifo, buffer, nIn, nOut, seqVars, concVars, lockVars,
                   timerVars, role, primask, stack>>

\* irq_lock(): __disable_irq(); return primask;
IrqLockDisable ==
    /\ Running("task") /\ pc["task"] = "lock_disable"
    /\ primask' = disable_irq(primask)
    /\ levels' = Append(levels, loc["task"].saved)
    /\ held' = Append(held, [kind |-> "irq", pm |-> loc["task"].pm0])
    /\ last' = LockCall("irq_lock", loc["task"].pm0)
    /\ pc' = [pc EXCEPT !["task"] = "idle"]
    /\ UNCHANGED <<fifo, buffer, nIn, nOut, fault, ref, concVars, mutex,
                   timerVars, spinlock, cpu, agent, role, stack, loc>>

\* irq_unlock(level): __set_PRIMASK(level);
IrqUnlock ==
    /\ Innermost("irq")
    /\ primask' = set_PRIMASK(primask, levels[Len(levels)])
    /\ levels' = SubSeq(levels, 1, Len(levels) - 1)
    /\ held' = SubSeq(held, 1, Len(held) - 1)
    /\ last' = LockCall("irq_unlock", held[Len(held)].pm)
    /\ UNCHANGED <<fifo, buffer, nIn, nOut, fault, ref, concVars, mutex,
                   timerVars, spinlock, cpu, agent, role, stack, pc, loc>>

\* kmutex_lock(&mutex): __disable_irq(); (*mutex)++; return 0;
KmutexLock ==
    /\ CanAcquire
    /\ primask' = disable_irq(primask)
    /\ mutex' = (mutex + 1) % 256
    /\ held' = Append(held, [kind |-> "kmutex", pm |-> primask])
    /\ last' = LockCall("kmutex_lock", primask)
    /\ loc' = [loc EXCEPT !["task"].calls = @ + 1, !["task"].pm0 = primask]
    /\ UNCHANGED <<fifo, buffer, nIn, nOut, fault, ref, concVars, levels,
                   timerVars, spinlock, cpu, agent, role, stack, pc>>

\* kmutex_unlock(&mutex): if (*mutex > 0) { (*mutex)--;
\* if (*mutex == 0) __enable_irq(); } return 0;
KmutexUnlock ==
    /\ Innermost("kmutex")
    /\ mutex' = IF mutex > 0 THEN mutex - 1 ELSE mutex
    /\ primask' = IF mutex > 0 /\ mutex' = 0 THEN enable_irq(primask)
                  ELSE primask
    /\ held' = SubSeq(held, 1, Len(held) - 1)
    /\ last' = LockCall("kmutex_unlock", held[Len(held)].pm)
    /\ UNCHANGED <<fifo, buffer, nIn, nOut, fault, ref, concVars, levels,
                   timerVars, spinlock, cpu, agent, role, stack, pc, loc>>

NestNext ==
    \/ IrqLockGet \/ IrqLockDisable \/ IrqUnlock
    \/ KmutexLock \/ KmutexUnlock
    \/ TaskCall
    \/ \E c \in Ctx :
        \/ IrqEntry(c) \/ GetPrimask(c) \/ DisableIrq(c) \/ SetPrimask(c)
        \/ Return(c)
        \/ InCall(c) \/ InCopy1(c) \/ InCopy2(c) \/ InPubLoad(c)
        \/ InPubStore(c)
        \/ OutCall(c) \/ OutCopy1(c) \/ OutCopy2(c) \/ OutPubLoad(c)
        \/ OutPubStore(c)
        \/ LinearCall(c) \/ LinearRead(c) \/ SkipLoad(c) \/ SkipStore(c)

SpecNest == NestInit /\ [][NestNext]_vars

(***************************************************************************)
(* The functions of src/math/log2.h applied to every unsigned int.  The    *)
(* state holds the argument and the result of the latest call of each.     *)
(***************************************************************************)
Log2Init ==
    /\ NoFifo
    /\ last = [op |-> "none",
               down |-> [n |-> 1, ret |-> 1],
               pow2 |-> [n |-> 0, ret |-> FALSE]]

\* p = rounddown_pow_of_two(n);
RoundDown ==
    /\ \E n \in 0..UINT_MAX :
       \E shl \in (IF n = 0 THEN ShlOutcomes ELSE {NoUB.shl}) :
          last' = [last EXCEPT !.op = "rounddown_pow_of_two",
                               !.down = [n |-> n,
                                         ret |-> rounddown_pow_of_two(n, shl)]]
    /\ UNCHANGED <<fifo, buffer, nIn, nOut, fault, ref, concVars, irqVars,
                   lockVars, timerVars>>

\* b = is_power_of_2(n);
IsPowerOf2 ==
    /\ \E n \in 0..UINT_MAX :
          last' = [last EXCEPT !.op = "is_power_of_2",
                               !.pow2 = [n |-> n, ret |-> is_power_of_2(n)]]
    /\ UNCHANGED <<fifo, buffer, nIn, nOut, fault, ref, concVars, irqVars,
                   lockVars, timerVars>>

Log2Next == RoundDown \/ IsPowerOf2

SpecLog2 == Log2Init /\ [][Log2Next]_vars

(***************************************************************************)
(* The spinlock of kmutex.c on two cores.  Each step is one statement or   *)
(* one exclusive access of spinlock_lock, spinlock_trylock or              *)
(* spinlock_unlock.  The handler of core 0 is taken when PRIMASK of the    *)
(* core is 0 and runs until it has returned and released the lock.         *)
(***************************************************************************)
\* __LDREXW(&lock->lock): the value read; the monitor of the core is armed
LDREXW(word) == word

\* a __STREXW that stores whatever the monitor says
STREXW_nomonitor(monitor, word, v, spurious) == [fail |-> 0, word |-> v]

\* __STREXW(v, &lock->lock): 0 and the store when the monitor of the core
\* is still armed, 1 and no store otherwise; it may also fail for reasons
\* of the implementation (spurious)
STREXW(monitor, word, v, spurious) ==
    IF monitor /\ ~spurious THEN [fail |-> 0, word |-> v]
    ELSE [fail |-> 1, word |-> word]

\* the record of a completed spinlock call
SpinCallRecord(op, a, ret) ==
    [op |-> op, agent |-> a, ret |-> ret, stores |-> agent[a].stores,
     lock0 |-> spinlock.lock, own |-> agent[a].tmp,
     restored |-> spinlock.irq_state]

SpinInit ==
    /\ NoFifo
    /\ last = [op |-> "none", agent |-> "t0", ret |-> FALSE, stores |-> 0,
               lock0 |-> 0, own |-> 0, restored |-> 0]

\* the handler of core 0 has started and not finished
Active(a) == agent[a].pc /= "idle" \/ agent[a].holds

\* the core of context a executes a
Executing(a) == a = "t0" => ~Active("i0")

At(a, pc0) == Executing(a) /\ agent[a].pc = pc0

\* the monitors after a store to the lock word by core k: all cleared
AfterStore(k) == [j \in Cores |-> [cpu[j] EXCEPT !.monitor = FALSE]]

\* context a calls spinlock_lock(&lock) or spinlock_trylock(&lock); the
\* handler does so when its interrupt is taken
SpinCall(a) ==
    /\ At(a, "idle") /\ ~agent[a].holds
    /\ a = "i0" => cpu[0].primask = 0
    /\ \E op \in {"spinlock_lock", "spinlock_trylock"} :
          agent' = [agent EXCEPT ![a].pc = "get", ![a].op = op,
                                 ![a].stores = 0]
    /\ UNCHANGED <<fifo, buffer, nIn, nOut, seqVars, concVars, irqVars,
                   timerVars, levels, mutex, held, spinlock, cpu>>

\* irq_lock(): uint32_t primask = __get_PRIMASK();
SpinGet(a) ==
    /\ At(a, "get")
    /\ agent' = [agent EXCEPT ![a].pc = "disable",
                              ![a].tmp = get_PRIMASK(cpu[CoreOf(a)].primask)]
    /\ UNCHANGED <<fifo, buffer, nIn, nOut, seqVars, concVars, irqVars,
                   timerVars, levels, mutex, held, spinlock, cpu>>

\* irq_lock(): __disable_irq(); return primask;
SpinDisable(a) ==
    /\ At(a, "disable")
    /\ cpu' = [cpu EXCEPT ![CoreOf(a)].primask = disable_irq(@)]
    /\ agent' = [agent EXCEPT ![a].pc = "save"]
    /\ UNCHANGED <<fifo, buffer, nIn, nOut, seqVars, concVars, irqVars,
                   timerVars, levels, mutex, held, spinlock>>

\* lock->irq_state = irq_lock();
SpinSave(a) ==
    /\ At(a, "save")
    /\ spinlock' = [spinlock EXCEPT !.irq_state = agent[a].tmp]
    /\ agent' = [agent EXCEPT ![a].pc = "ldrex"]
    /\ UNCHANGED <<fifo, buffer, nIn, nOut, seqVars, concVars, irqVars,
                   timerVars, levels, mutex, held, cpu>>

\* __LDREXW(&lock->lock) != 0: spinlock_lock tries again, spinlock_trylock
\* gives up
SpinLdrex(a) ==
    /\ At(a, "ldrex")
    /\ cpu' = [cpu EXCEPT ![CoreOf(a)].monitor = TRUE]
    /\ agent' = [agent EXCEPT ![a].pc =
                     IF LDREXW(spinlock.lock) = 0 THEN "strex"
                     ELSE IF agent[a].op = "spinlock_lock" THEN "ldrex"
                     ELSE "restore"]
    /\ UNCHANGED <<fifo, buffer, nIn, nOut, seqVars, concVars, irqVars,
                   timerVars, levels, mutex, held, spinlock>>

\* __STREXW(1, &lock->lock) != 0: as above; otherwise __DMB() and return
SpinStrex(a) ==
    /\ At(a, "strex")
    /\ \E spurious \in BOOLEAN :
          LET r == STREXW(cpu[CoreOf(a)].monitor, spinlock.lock, 1, spurious)
          IN  /\ spinlock' = [spinlock EXCEPT !.lock = r.word]
              /\ cpu' = IF r.fail = 0 THEN AfterStore(CoreOf(a))
                        ELSE [cpu EXCEPT ![CoreOf(a)].monitor = FALSE]
              /\ agent' = [agent EXCEPT
                    ![a].pc = IF r.fail = 0 THEN "idle"
                              ELSE IF agent[a].op = "spinlock_lock"
                              THEN "ldrex" ELSE "restore",
                    ![a].holds = (r.fail = 0),
                    ![a].stores = IF r.fail = 0 THEN @ + 1 ELSE @]
              /\ last' = IF r.fail = 0
                         THEN [SpinCallRecord(agent[a].op, a, TRUE)
                                  EXCEPT !.stores = @ + 1]
                         ELSE last
    /\ UNCHANGED <<fifo, buffer, nIn, nOut, fault, ref, concVars, irqVars,
                   timerVars, levels, mutex, held>>

\* spinlock_trylock: irq_unlock(lock->irq_state); return false;
SpinRestore(a) ==
    /\ At(a, "restore")
    /\ cpu' = [cpu EXCEPT ![CoreOf(a)].primask =
                              set_PRIMASK(@, spinlock.irq_state)]
    /\ agent' = [agent EXCEPT ![a].pc = "idle"]
    /\ last' = SpinCallRecord("spinlock_trylock", a, FALSE)
    /\ UNCHANGED <<fifo, buffer, nIn, nOut, fault, ref, concVars, irqVars,
                   timerVars, levels, mutex, held, spinlock>>

\* spinlock_unlock by the holder: __DMB(); lock->lock = 0;
SpinUnlock(a) ==
    /\ At(a, "idle") /\ agent[a].holds
    /\ spinlock' = [spinlock EXCEPT !.lock = 0]
    /\ cpu' = AfterStore(CoreOf(a))
    /\ agent' = [agent EXCEPT ![a].pc = "unlock_restore", ![a].holds = FALSE,
                              ![a].op = "spinlock_unlock"]
    /\ UNCHANGED <<fifo, buffer, nIn, nOut, seqVars, concVars, irqVars,
                   timerVars, levels, mutex, held>>

\* spinlock_unlock: irq_unlock(lock->irq_state);
SpinUnlockRestore(a) ==
    /\ At(a, "unlock_restore")
    /\ cpu' = [cpu EXCEPT ![CoreOf(a)].primask =
                              set_PRIMASK(@, spinlock.irq_state)]
    /\ agent' = [agent EXCEPT ![a].pc = "idle"]
    /\ last' = SpinCallRecord("spinlock_unlock", a, TRUE)
    /\ UNCHANGED <<fifo, buffer, nIn, nOut, fault, ref, concVars, irqVars,
                   timerVars, levels, mutex, held, spinlock>>

\* a task that is in no spinlock call and holds no lock enters a section of
\* its own with level = irq_lock()
SpinCritEnter(a) ==
    /\ a /= "i0" /\ At(a, "idle") /\ ~agent[a].holds /\ ~agent[a].crit
    /\ agent' = [agent EXCEPT ![a].crit = TRUE,
                              ![a].level = get_PRIMASK(cpu[CoreOf(a)].primask)]
    /\ cpu' = [cpu EXCEPT ![CoreOf(a)].primask = disable_irq(@)]
    /\ UNCHANGED <<fifo, buffer, nIn, nOut, seqVars, concVars, irqVars,
                   timerVars, levels, mutex, held, spinlock>>

\* and leaves it with irq_unlock(level)
SpinCritExit(a) ==
    /\ At(a, "idle") /\ ~agent[a].holds /\ agent[a].crit
    /\ agent' = [agent EXCEPT ![a].crit = FALSE]
    /\ cpu' = [cpu EXCEPT ![CoreOf(a)].primask =
                              set_PRIMASK(@, agent[a].level)]
    /\ UNCHANGED <<fifo, buffer, nIn, nOut, seqVars, concVars, irqVars,
                   timerVars, levels, mutex, held, spinlock>>

SpinNext ==
    \E a \in Agents :
        \/ SpinCritEnter(a) \/ SpinCritExit(a)
        \/ SpinCall(a) \/ SpinGet(a) \/ SpinDisable(a) \/ SpinSave(a)
        \/ SpinLdrex(a) \/ SpinStrex(a) \/ SpinRestore(a)
        \/ SpinUnlock(a) \/ SpinUnlockRestore(a)

SpecSpin == SpinInit /\ [][SpinNext]_vars

(***************************************************************************)
(* The intrusive list of src/my_list.h.  nd is the memory of the nodes:    *)
(* nd[k].next and nd[k].prev are the pointers of node k.                   *)
(***************************************************************************)
\* node->next = node; node->prev = node;
list_node_init(nd, k) == [nd EXCEPT ![k] = [next |-> k, prev |-> k]]

\* next->prev = new_node; new_node->next = next; new_node->prev = prev;
\* prev->next = new_node;
__list_add(nd, new_node, prev, next) ==
    LET s1 == [nd EXCEPT ![next].prev = new_node]
        s2 == [s1 EXCEPT ![new_node].next = next]
        s3 == [s2 EXCEPT ![new_node].prev = prev]
    IN  [s3 EXCEPT ![prev].next = new_node]

\* list_add(new_node, node): new_node goes after node
list_add(nd, new_node, k) == __list_add(nd, new_node, k, nd[k].next)

\* list_add_tail(new_node, node): new_node goes before node
list_add_tail(nd, new_node, k) == __list_add(nd, new_node, nd[k].prev, k)

\* next->prev = prev; prev->next = next;
__list_del(nd, prev, next) ==
    LET s1 == [nd EXCEPT ![next].prev = prev]
    IN  [s1 EXCEPT ![prev].next = next]

\* list_del(node) of a node whose pointers are those of nodes
list_del(nd, k) ==
    [__list_del(nd, nd[k].prev, nd[k].next) EXCEPT
        ![k] = [next |-> POISON, prev |-> POISON]]

\* return head->next == head;
list_empty(nd, head) == nd[head].next = head

\* list_del(node) in every state of the node.  The pointers of a node that
\* list_del has removed before are (void*)0xFFFFFFFF, and __list_del stores
\* through them: the behaviour is undefined.  The processor either takes a
\* fault at the store ("trap": the call never returns) or performs it at
\* that address, which is the address of no node ("stray"); the node is
\* then poisoned once more.
list_del_outcomes(nd, k) ==
    IF nd[k].prev \in Node /\ nd[k].next \in Node
    THEN {[node |-> list_del(nd, k), hazard |-> "none"]}
    ELSE {[node |-> [nd EXCEPT ![k] = [next |-> POISON, prev |-> POISON]],
           hazard |-> "stray"],
          [node |-> nd, hazard |-> "trap"]}

(***************************************************************************)
(* The ordered insertion of sort_algo.c with the comparison of stimer.c.   *)
(* tm is the memory of the stimer_t objects.                               *)
(***************************************************************************)
\* stimer_compare_func(node1, node2): by expire_time
stimer_compare_func(tm, node1, node2) ==
    IF tm[node1].expire_time < tm[node2].expire_time THEN -1
    ELSE IF tm[node1].expire_time > tm[node2].expire_time THEN 1
    ELSE 0

\* the list_for_each loop of sorted_insert_list from node current on
RECURSIVE insert_scan(_, _, _, _, _)
insert_scan(nd, tm, head, new_node, current) ==
    IF current = head THEN list_add_tail(nd, new_node, head)
    ELSE IF nd[current].next = head THEN list_add(nd, new_node, current)
    ELSE IF stimer_compare_func(tm, new_node, nd[current].next) < 0
         THEN list_add(nd, new_node, current)
    ELSE insert_scan(nd, tm, head, new_node, nd[current].next)

\* sorted_insert_list with <= in place of < in its comparisons
RECURSIVE insert_scan_le(_, _, _, _, _)
insert_scan_le(nd, tm, head, new_node, current) ==
    IF current = head THEN list_add_tail(nd, new_node, head)
    ELSE IF nd[current].next = head THEN list_add(nd, new_node, current)
    ELSE IF stimer_compare_func(tm, new_node, nd[current].next) <= 0
         THEN list_add(nd, new_node, current)
    ELSE insert_scan_le(nd, tm, head, new_node, nd[current].next)

sorted_insert_list_le(nd, tm, head, new_node) ==
    IF list_empty(nd, head)
       \/ stimer_compare_func(tm, new_node, nd[head].next) <= 0
    THEN list_add(nd, new_node, head)
    ELSE insert_scan_le(nd, tm, head, new_node, nd[head].next)

\* sorted_insert_list(head, new_node, stimer_compare_func)
sorted_insert_list(nd, tm, head, new_node) ==
    IF list_empty(nd, head)
       \/ stimer_compare_func(tm, new_node, nd[head].next) < 0
    THEN list_add(nd, new_node, head)
    ELSE insert_scan(nd, tm, head, new_node, nd[head].next)

\* the nodes of the list from node k to the head, following next; a pointer
\* that is no node ends the walk, and so does the budget of steps
RECURSIVE Walk(_, _, _)
Walk(nd, k, budget) ==
    IF k = stimer_list \/ k \notin Node \/ budget = 0 THEN <<>>
    ELSE <<k>> \o Walk(nd, nd[k].next, budget - 1)

\* the timers of stimer_list in list order
Listed(nd) == Walk(nd, nd[stimer_list].next, MaxTimers + 1)

(***************************************************************************)
(* The software timers of stimer.c, called from the main loop: each call   *)
(* of stimer_create, stimer_start, stimer_stop, stimer_change_period and   *)
(* stimer_reset runs to completion, stimer_service is one step for each    *)
(* timer it visits, and the tick advances at any time.  The callbacks call *)
(* nothing of stimer.c.  The variable last holds the latest call of these  *)
(* functions and its timer.                                                *)
(***************************************************************************)
TimerCall(op, t) == [op |-> op, t |-> t]

TimerInit ==
    /\ NoFifo
    /\ last = TimerCall("none", 0)

\* no call is in progress, and none has ended in a fault
MainLoop == service.pc = "idle" /\ hazard /= "trap"

\* if (!list_empty(&timer->node)) list_del(&timer->node);
unlink_outcomes(nd, t) ==
    IF ~list_empty(nd, t) THEN list_del_outcomes(nd, t)
    ELSE {[node |-> nd, hazard |-> "none"]}

\* the tick of the system advances by one
Tick ==
    /\ tick < MaxTick
    /\ tick' = tick + 1
    /\ UNCHANGED <<fifo, buffer, nIn, nOut, seqVars, concVars, irqVars,
                   levels, mutex, held, spinlock, cpu, agent,
                   node, timers, service, hazard>>

\* stimer_create(&timer[t], period, auto_reload, callback, arg), called once
\* for each timer
StimerCreate(t) ==
    /\ MainLoop /\ ~timers[t].created
    /\ \E period \in 0..MaxPeriod, auto_reload \in {0, 1} :
          timers' = [timers EXCEPT ![t] =
                        [created |-> TRUE, period |-> period,
                         expire_time |-> 0, auto_reload |-> auto_reload,
                         active |-> 0]]
    /\ node' = list_node_init(node, t)
    /\ hazard' = "none"
    /\ last' = TimerCall("stimer_create", t)
    /\ UNCHANGED <<fifo, buffer, nIn, nOut, fault, ref, concVars, irqVars,
                   lockVars, tick, service>>

\* the end of stimer_start, stimer_change_period and stimer_reset once the
\* node is out of the list: the new expire_time, and the ordered insertion
Restart(o, tm, t) ==
    IF o.hazard = "trap"
    THEN /\ timers' = tm
         /\ node' = o.node
    ELSE LET tm2 == [tm EXCEPT ![t].expire_time = tick + tm[t].period]
         IN  /\ timers' = tm2
             /\ node' = sorted_insert_list(o.node, tm2, stimer_list, t)

\* stimer_start(&timer[t])
StimerStart(t) ==
    /\ MainLoop /\ timers[t].created
    /\ \E o \in unlink_outcomes(node, t) :
          /\ Restart(o, IF o.hazard = "trap" THEN timers
                        ELSE [timers EXCEPT ![t].active = 1], t)
          /\ hazard' = o.hazard
    /\ last' = TimerCall("stimer_start", t)
    /\ UNCHANGED <<fifo, buffer, nIn, nOut, fault, ref, concVars, irqVars,
                   lockVars, tick, service>>

\* stimer_stop(&timer[t])
StimerStop(t) ==
    /\ MainLoop /\ timers[t].created
    /\ \E o \in (IF ~list_empty(node, stimer_list)
                 THEN unlink_outcomes(node, t)
                 ELSE {[node |-> node, hazard |-> "none"]}) :
          /\ node' = o.node
          /\ timers' = [timers EXCEPT ![t].active = 0]
          /\ hazard' = o.hazard
    /\ last' = TimerCall("stimer_stop", t)
    /\ UNCHANGED <<fifo, buffer, nIn, nOut, fault, ref, concVars, irqVars,
                   lockVars, tick, service>>

\* stimer_change_period(&timer[t], period)
StimerChangePeriod(t) ==
    /\ MainLoop /\ timers[t].created
    /\ \E period \in 0..MaxPeriod :
          LET tm == [timers EXCEPT ![t].period = period]
          IN  IF timers[t].active /= 0
              THEN \E o \in unlink_outcomes(node, t) :
                      /\ Restart(o, tm, t)
                      /\ hazard' = o.hazard
              ELSE /\ timers' = tm
                   /\ node' = node
                   /\ hazard' = "none"
    /\ last' = TimerCall("stimer_change_period", t)
    /\ UNCHANGED <<fifo, buffer, nIn, nOut, fault, ref, concVars, irqVars,
                   lockVars, tick, service>>

\* stimer_reset(&timer[t])
StimerReset(t) ==
    /\ MainLoop /\ timers[t].created
    /\ IF timers[t].active /= 0
       THEN \E o \in unlink_outcomes(node, t) :
               /\ Restart(o, timers, t)
               /\ hazard' = o.hazard
       ELSE /\ timers' = timers
            /\ node' = node
            /\ hazard' = "none"
    /\ last' = TimerCall("stimer_reset", t)
    /\ UNCHANGED <<fifo, buffer, nIn, nOut, fault, ref, concVars, irqVars,
                   lockVars, tick, service>>

\* (current_time + accumulated_drift) >= timer->expire_time
Expired(tm, t, current_time, drift) ==
    current_time + drift >= tm[t].expire_time

\* stimer_service() up to its loop: it returns at once when stimer_list is
\* empty; otherwise it reads the tick, adds the ticks it has missed since
\* the call before to accumulated_drift, and starts the traversal with
\* pos = stimer_list.next and next = pos->next
S_Call ==
    /\ MainLoop
    /\ IF list_empty(node, stimer_list)
       THEN service' = service
       ELSE LET drift == tick - service.last_service_time
                acc == IF service.last_service_time /= 0 /\ drift > 1
                       THEN service.accumulated_drift + (drift - 1)
                       ELSE service.accumulated_drift
                pos == node[stimer_list].next
            IN  service' = [pc |-> "loop", pos |-> pos, n |-> node[pos].next,
                            current_time |-> tick,
                            last_service_time |-> tick,
                            accumulated_drift |-> acc,
                            due |-> {t \in Timers :
                                       /\ timers[t].active /= 0
                                       /\ Expired(timers, t, tick, acc)},
                            fired |-> {}]
    /\ hazard' = "none"
    /\ last' = TimerCall("stimer_service", 0)
    /\ UNCHANGED <<fifo, buffer, nIn, nOut, fault, ref, concVars, irqVars,
                   lockVars, tick, node, timers>>

\* one round of the list_for_each_safe loop of stimer_service: the timer at
\* pos has expired and is removed (one-shot) or removed and inserted again
\* with expire_time = current_time + period (auto-reload), and the loop goes
\* on with pos = next, next = pos->next; or it has not expired, and the loop
\* is left
S_Visit ==
    /\ service.pc = "loop"
    /\ LET t == service.pos
           go == /\ timers[t].active /= 0
                 /\ Expired(timers, t, service.current_time,
                            service.accumulated_drift)
           tm == IF timers[t].auto_reload = 0
                 THEN [timers EXCEPT ![t].active = 0]
                 ELSE [timers EXCEPT ![t].expire_time =
                          service.current_time + timers[t].period]
           nd == IF timers[t].auto_reload = 0
                 THEN list_del(node, t)
                 ELSE sorted_insert_list(list_del(node, t), tm,
                                         stimer_list, t)
       IN  IF go
           THEN /\ timers' = tm
                /\ node' = nd
                /\ service' = [service EXCEPT
                      !.pos = service.n,
                      !.n = nd[service.n].next,
                      !.fired = @ \cup {t},
                      !.pc = IF service.n = stimer_list THEN "done"
                             ELSE "loop"]
           ELSE /\ service' = [service EXCEPT !.pc = "done"]
                /\ UNCHANGED <<node, timers>>
    /\ UNCHANGED <<fifo, buffer, nIn, nOut, seqVars, concVars, irqVars,
                   lockVars, tick, hazard>>

\* accumulated_drift = 0; and stimer_service returns, which ends the life
\* of its locals
S_Done ==
    /\ service.pc = "done"
    /\ service' = [NoService EXCEPT
                      !.last_service_time = service.last_service_time]
    /\ UNCHANGED <<fifo, buffer, nIn, nOut, seqVars, concVars, irqVars,
                   lockVars, tick, node, timers, hazard>>

ServiceStep == S_Visit \/ S_Done

TimerNext ==
    \/ Tick
    \/ \E t \in Timers : StimerCreate(t)
    \/ \E t \in Timers : StimerStart(t)
    \/ \E t \in Timers : StimerStop(t)
    \/ \E t \in Timers : StimerChangePeriod(t)
    \/ \E t \in Timers : StimerReset(t)
    \/ S_Call
    \/ S_Visit
    \/ S_Done

SpecTimer == TimerInit /\ [][TimerNext]_vars

\* stimer_service is not abandoned in the middle of its loop
SpecTimerLive == SpecTimer /\ WF_vars(ServiceStep)

(***************************************************************************)
(* Properties of one producer and one consumer running concurrently.       *)
(***************************************************************************)
\* the byte addresses of the n slots that start at cursor c
SlotBytes(c, n) ==
    {BitAnd(U(c + k), fifo.mask) * fifo.esize + j :
        k \in 0..(n - 1), j \in 0..(fifo.esize - 1)}

\* the bytes the producer's call in progress writes
ProducerBytes ==
    {st[1] : st \in wbuf}
        \cup (IF pcP = "idle" THEN {} ELSE SlotBytes(pLoc.off, pLoc.len))

\* the bytes that hold elements not yet consumed, or that the consumer is
\* still to load
ConsumerBytes ==
    SlotBytes(fifo.out, kfifo_len(fifo)) \cup {ld[2] : ld \in rpend}

\* C2: under every interleaving of the steps of one kfifo_in caller and one
\* kfifo_out caller, the bytes delivered to the consumer are a prefix of the
\* bytes accepted from the producer (the stream 1, 2, 3, ...).
C2_DeliveredIsPrefixOfAccepted ==
    /\ Len(delivered) <= nIn * fifo.esize
    /\ delivered = SrcBuf(0, Len(delivered))

\* data that went around the ring have been delivered, and both contexts
\* are in the middle of a copy
C2_Witness ==
    /\ Len(delivered) > (fifo.mask + 1) * fifo.esize
    /\ pcP = "dmb" /\ wbuf /= {}
    /\ pcC = "dmb" /\ rpend /= {}

\* C3: the write cursor is published only when every store of the call has
\* reached the storage (after the barrier), so every slot in [out, in)
\* holds its final element in every reachable state.
C3_PublishedSlotsAreWritten ==
    /\ pcP = "pub" => wbuf = {}
    /\ \A k \in 0..(kfifo_len(fifo) - 1) : \A j \in 0..(fifo.esize - 1) :
          buffer[BitAnd(U(fifo.out + k), fifo.mask) * fifo.esize + j]
              = ((nOut + k) * fifo.esize + j + 1) % 256

\* the producer is about to publish a run written in two segments while the
\* consumer is copying out of a non-empty FIFO
C3_Witness ==
    /\ pcP = "pub"
    /\ BitAnd(pLoc.off, fifo.mask) + pLoc.len > fifo.mask + 1
    /\ kfifo_len(fifo) > 0
    /\ pcC = "dmb"

\* C4: the read cursor is published only when every load of the call has
\* been performed (after the barrier), so the producer never writes a byte
\* the consumer has not consumed or is still copying.
C4_ProducerNeverWritesLiveSlot ==
    /\ pcC = "pub" => rpend = {}
    /\ ProducerBytes \cap ConsumerBytes = {}

\* the producer has stores in flight into slots the consumer has freed,
\* while the consumer has loads in flight
C4_Witness ==
    /\ pcP \in {"copy2", "dmb"} /\ wbuf /= {}
    /\ rpend /= {}
    /\ nOut > 0
    /\ nIn > fifo.mask

(***************************************************************************)
(* Properties of calls made from one context.                              *)
(***************************************************************************)
\* capacity and stored count of the state the last call was made in
Cap0 == last.fifo0.mask + 1

Used0 == (last.fifo0.in - last.fifo0.out) % UINT_MOD

\* the last call's transfer was split at the physical end of the storage
Split0(cursor) ==
    BitAnd(cursor, last.fifo0.mask) + last.ret > Cap0

\* C1: the data every kfifo_out returns are, byte for byte, what an
\* unbounded non-circular queue fed with the same accepted elements returns,
\* and the elements left in the ring are the ones left in that queue.
C1_OutMatchesReferenceQueue ==
    /\ last.op = "out" => last.dst = Take(last.ref0, last.ret * fifo.esize)
    /\ kfifo_copy_out(fifo, buffer, kfifo_len(fifo), fifo.out, 0) = ref

\* a kfifo_out of more than one 2-byte element that is read in two segments,
\* from a ring whose content was itself written in two segments
C1_Witness ==
    /\ last.op = "out"
    /\ fifo.esize = 2
    /\ last.ret >= 2
    /\ Split0(last.fifo0.out)
    /\ last.nIn0 > Cap0

\* C5: conservation - the returned counts of all kfifo_in calls minus those
\* of all kfifo_out calls equal in - out (wraparound subtraction), and the
\* value lies between 0 and mask + 1.
C5_Conservation ==
    /\ nIn - nOut = (fifo.in - fifo.out) % UINT_MOD
    /\ nIn - nOut >= 0
    /\ nIn - nOut <= fifo.mask + 1

\* elements are stored while the write cursor has wrapped past UINT_MAX and
\* the read cursor has not
C5_Witness ==
    /\ last.op = "out"
    /\ last.ret > 0
    /\ fifo.in < fifo.out
    /\ nIn - nOut > 0

\* C7: kfifo_in returns min(len, unused) with unused = capacity - (in - out)
\* at call time, and advances in by the returned count.
C7_InReturnsMinLenUnused ==
    last.op = "in" =>
        /\ last.ret = Min(last.len, Cap0 - Used0)
        /\ last.ret >= 0 /\ last.ret <= last.len /\ last.ret <= Cap0 - Used0
        /\ fifo.in = (last.fifo0.in + last.ret) % UINT_MOD

\* a kfifo_in asked for more than the capacity into a partly filled FIFO
C7_Witness ==
    /\ last.op = "in"
    /\ last.len = UINT_MAX
    /\ Used0 > 0
    /\ last.ret > 0

\* C8: kfifo_out_peek and kfifo_out return min(len, used) with used =
\* in - out at call time; kfifo_out advances out by the returned count.
C8_OutReturnsMinLenUsed ==
    last.op \in {"out", "peek"} =>
        /\ last.ret = Min(last.len, Used0)
        /\ last.ret <= Used0
        /\ last.op = "out" =>
              fifo.out = (last.fifo0.out + last.ret) % UINT_MOD

\* a kfifo_out asked for more elements than are stored
C8_Witness ==
    /\ last.op = "out"
    /\ last.len > Used0
    /\ Used0 > 0
    /\ last.ret = Used0

\* C9: on a full FIFO, or with a requested length of 0, kfifo_in returns 0
\* and changes neither the structure nor any byte of the storage.
C9_InFullOrZeroNoEffect ==
    (last.op = "in" /\ (Used0 = Cap0 \/ last.len = 0)) =>
        /\ last.ret = 0
        /\ fifo = last.fifo0
        /\ buffer = last.buffer0

\* a kfifo_in of at least one element on a full FIFO
C9_Witness ==
    /\ last.op = "in"
    /\ Used0 = Cap0
    /\ last.len > 0
    /\ last.ret = 0

\* C10: kfifo_out_peek copies the first min(len, used) stored elements in
\* FIFO order and leaves in, out, mask, esize and the storage unchanged.
C10_PeekCopiesWithoutConsuming ==
    last.op = "peek" =>
        /\ last.dst = Take(last.ref0, Min(last.len, Used0) * fifo.esize)
        /\ fifo = last.fifo0
        /\ buffer = last.buffer0

\* a kfifo_out_peek of several elements that is read in two segments
C10_Witness ==
    /\ last.op = "peek"
    /\ last.ret >= 2
    /\ Split0(last.fifo0.out)
    /\ last.dst /= <<>>

\* C11: right after a kfifo_out_peek, a second kfifo_out_peek with the same
\* length returns the same count and the same data, and a kfifo_out with
\* the same length returns the same count and data and removes exactly
\* those elements.
C11_PeekIdempotent ==
    last.op = "peek" =>
        LET p == kfifo_out_peek(fifo, buffer, last.len, 0)
            o == kfifo_out(fifo, buffer, last.len, 0)
        IN  /\ p.ret = last.ret /\ p.dst = last.dst
            /\ o.ret = last.ret /\ o.dst = last.dst
            /\ o.fifo.out = U(last.fifo0.out + last.ret)
            /\ o.fifo.in = last.fifo0.in
            /\ kfifo_copy_out(o.fifo, o.buffer, kfifo_len(o.fifo),
                              o.fifo.out, 0)
                  = Drop(last.ref0, last.ret * fifo.esize)

\* a kfifo_out_peek has returned some but not all of the stored elements,
\* read in two segments
C11_Witness ==
    /\ last.op = "peek"
    /\ last.ret >= 2
    /\ last.ret < Used0
    /\ Split0(last.fifo0.out)

(***************************************************************************)
(* Properties of the whole public interface.                               *)
(***************************************************************************)
\* C6: after any sequence of the public operations, kfifo_skip and
\* kfifo_skip_count with any count included, the wraparound difference
\* in - out lies in [0, capacity] and is the number of stored elements.
C6_LenWithinCapacity ==
    /\ kfifo_len(fifo) >= 0
    /\ kfifo_len(fifo) <= fifo.mask + 1
    /\ kfifo_len(fifo) * fifo.esize = Len(ref)

\* C12: for every requested count n, 0 included, kfifo_out_linear reports
\* tail = out & mask and returns min(n, in - out, capacity - tail), so that
\* tail + result <= capacity, result <= n and result <= used.
C12_OutLinearWindow ==
    last.op = "out_linear" =>
        /\ last.tail = last.fifo0.out % Cap0
        /\ last.ret = Min(Min(last.len, Used0), Cap0 - last.tail)
        /\ last.tail + last.ret <= Cap0
        /\ last.ret <= last.len
        /\ last.ret <= Used0

\* C13: kfifo_out_linear copies nothing and leaves in, out, mask, esize and
\* the storage unchanged; the elements are consumed by a later
\* kfifo_skip_count or kfifo_skip, which advances out by its count and
\* changes nothing else.
C13_OutLinearIsPureQuery ==
    /\ last.op = "out_linear" =>
          /\ fifo = last.fifo0
          /\ buffer = last.buffer0
          /\ ref = last.ref0
          /\ nOut = last.nOut0
    /\ last.op \in {"skip", "skip_count"} =>
          /\ fifo = [last.fifo0 EXCEPT
                        !.out = (last.fifo0.out + last.len) % UINT_MOD]
          /\ buffer = last.buffer0

\* a kfifo_out_linear whose window is cut at the physical end of the
\* storage, on a ring that has gone around
C13_Witness ==
    /\ last.op = "out_linear"
    /\ last.tail > 0
    /\ last.ret > 0
    /\ last.ret < Min(last.len, Used0)
    /\ last.nIn0 > Cap0

(***************************************************************************)
(* Properties of kfifo_init.                                               *)
(***************************************************************************)
\* the number of whole elements the storage of the last kfifo_init holds
Elems0 == last.size \div last.esize

\* C14: for every kfifo_init that returns 0 the capacity mask + 1 is the
\* largest power of two <= floor(size / esize): a power of two, at least 2,
\* and capacity * esize is at most the storage size.
C14_CapacityIsRoundedDown ==
    (last.op = "kfifo_init" /\ last.esize >= 1 /\ last.ret = 0) =>
        LET capacity == fifo.mask + 1
        IN  /\ \E k \in 1..UINT_BITS : capacity = Pow2(k)
            /\ capacity >= 2
            /\ capacity <= Elems0
            /\ 2 * capacity > Elems0
            /\ capacity * last.esize <= last.size

\* C15: for esize >= 1, kfifo_init returns -EINVAL exactly when
\* floor(size / esize) < 2 and 0 exactly when floor(size / esize) >= 2.
C15_InitRejectsBelowTwoElements ==
    (last.op = "kfifo_init" /\ last.esize >= 1) =>
        /\ last.ret \in {0, -EINVAL}
        /\ last.ret = -EINVAL <=> Elems0 < 2
        /\ last.ret = 0 <=> Elems0 >= 2

\* C16: kfifo_init with esize = 0 returns -EINVAL for every storage size;
\* it does not fault and does not return 0.
C16_InitRejectsZeroEsize ==
    (last.op = "kfifo_init" /\ last.esize = 0) =>
        /\ ~last.trap
        /\ ~fault
        /\ last.ret = -EINVAL

\* C17: right after a kfifo_init that returned 0, in = out = 0, esize and
\* data are the arguments, kfifo_initialized is nonzero, kfifo_len is 0,
\* kfifo_is_empty is true, kfifo_avail is the capacity and kfifo_out and
\* kfifo_out_peek return 0; also when the FIFO held data before the call.
C17_InitLeavesEmptyFifo ==
    (last.op = "kfifo_init" /\ ~last.trap /\ last.ret = 0) =>
        /\ fifo.in = 0 /\ fifo.out = 0
        /\ fifo.esize = last.esize
        /\ fifo.data = last.data
        /\ DOMAIN buffer = 0..(last.size - 1)
        /\ kfifo_initialized(fifo) /= 0
        /\ kfifo_len(fifo) = 0
        /\ kfifo_is_empty(fifo) = 1
        /\ kfifo_is_full(fifo) = 0
        /\ kfifo_avail(fifo) = fifo.mask + 1
        /\ ref = <<>>
        /\ \A len \in LenArgs(fifo) :
              /\ kfifo_out(fifo, buffer, len, 0).ret = 0
              /\ kfifo_out_peek(fifo, buffer, len, 0).ret = 0

\* a FIFO that holds data is initialized again, with other storage, and
\* the call returns 0
C17_Witness ==
    /\ last.op = "kfifo_init"
    /\ last.ret = 0 /\ ~last.trap
    /\ last.esize >= 1 /\ Elems0 >= 2
    /\ last.nIn0 - last.nOut0 > 0
    /\ last.nOut0 > 0
    /\ fifo.data = 2

(***************************************************************************)
(* Properties of the locked calls made from a task and interrupt handlers. *)
(***************************************************************************)
\* the stored elements in FIFO order, as the cursors delimit them
RingContent == kfifo_copy_out(fifo, buffer, kfifo_len(fifo), fifo.out, 0)

\* context c is between the first statement of kfifo_in or kfifo_out and
\* the store of the cursor
InTransfer(c) == pc[c] \in {"copy1", "copy2", "load", "store"}

\* C18: with the task and a handler writing through kfifo_in_locked and
\* another handler reading with kfifo_out, no kfifo_in of one producer
\* runs inside the kfifo_in of the other, in - out is the number of
\* elements accepted minus the number read, and the bytes delivered
\* followed by the bytes stored are, for each producer, exactly the bytes
\* accepted from it, in its order.
C18_LockedProducersAreAtomic ==
    role["task"] = "in_locked" =>
        /\ \A c \in Producers : \A d \in Producers \ {c} :
              ~(InTransfer(c) /\ InTransfer(d))
        /\ kfifo_len(fifo) = nIn - nOut
        /\ kfifo_len(fifo) <= fifo.mask + 1
        /\ Len(delivered) + Len(RingContent) = nIn * fifo.esize
        /\ \A c \in Producers :
              FromStream(delivered \o RingContent, c)
                  = SrcOf(c, 0, loc[c].acc * fifo.esize)

\* the task was interrupted on its way into kfifo_in_locked by the
\* consumer, which is interrupted in the middle of its copy by the other
\* producer; elements of the task are stored and the handler is about to
\* publish its own
C18_Witness ==
    /\ role["task"] = "in_locked"
    /\ stack = <<"task", "isr1", "isr2">>
    /\ pc["task"] = "disable"
    /\ pc["isr1"] = "copy2" /\ loc["isr1"].len > 0
    /\ pc["isr2"] = "store" /\ loc["isr2"].len > 0
    /\ loc["task"].acc > 0

\* C19: with the task and a handler reading through kfifo_out_locked and
\* another handler writing with kfifo_in, no kfifo_out of one consumer
\* runs inside the kfifo_out of the other, the bytes delivered to all
\* consumer calls together are the accepted stream from its start, each
\* byte once and none left out, and out has advanced by the number of
\* elements delivered.
C19_LockedConsumersShareNothing ==
    role["task"] = "out_locked" =>
        /\ \A c \in Consumers : \A d \in Consumers \ {c} :
              ~(InTransfer(c) /\ InTransfer(d))
        /\ delivered = SrcOf("isr1", 0, Len(delivered))
        /\ Len(delivered) = nOut * fifo.esize
        /\ fifo.out = U(nOut)
        /\ delivered \o RingContent = SrcOf("isr1", 0, nIn * fifo.esize)

\* the task was interrupted on its way into kfifo_out_locked by the
\* producer, which is interrupted in the middle of kfifo_in by the other
\* consumer; both consumers have been given data
C19_Witness ==
    /\ role["task"] = "out_locked"
    /\ stack = <<"task", "isr1", "isr2">>
    /\ pc["task"] = "disable" /\ loc["task"].dst /= <<>>
    /\ pc["isr1"] = "load" /\ loc["isr1"].len > 0
    /\ pc["isr2"] = "restore" /\ loc["isr2"].len > 0
    /\ Len(delivered) >= 2 * fifo.esize

\* C20: with the task and a handler each taking a window with
\* kfifo_out_linear_locked, using it and then calling kfifo_skip_count
\* with the returned count, the bytes handed to the consumers are the
\* accepted stream from its start, each byte once and none left out, and
\* out has advanced by the number of elements handed out.
C20_LinearLockedConsumersShareNothing ==
    role["task"] = "linear_locked" =>
        /\ delivered = SrcOf("isr1", 0, Len(delivered))
        /\ pc["task"] = "idle" /\ Len(stack) = 1 =>
              /\ fifo.out = U(Len(delivered) \div fifo.esize)
              /\ kfifo_len(fifo) <= fifo.mask + 1

(***************************************************************************)
(* Properties of locked and unlocked producers on one FIFO.                *)
(***************************************************************************)
\* in - out is the number of elements accepted and not read, and the bytes
\* delivered followed by the bytes stored are, for each producer, the bytes
\* accepted from it
NothingLost ==
    /\ kfifo_len(fifo) = nIn - nOut
    /\ \A c \in Producers :
          FromStream(delivered \o RingContent, c)
              = SrcOf(c, 0, loc[c].acc * fifo.esize)

\* C21: with two producer contexts of which one calls the unlocked
\* kfifo_in, an accepted element is overwritten or an update of in is lost
\* (the stored count differs from accepted minus read) only when the
\* unlocked call is made by the producer that the other one can preempt;
\* that case is reachable, see C21_Witness.
C21_RaceNeedsPreemptibleUnlockedProducer ==
    ~NothingLost => role["task"] = "in"

\* the task calls kfifo_in, the handler that preempts it calls
\* kfifo_in_locked; all calls have returned, and the stored count is not
\* the number of elements accepted minus the number read
C21_Witness ==
    /\ role["task"] = "in" /\ role["isr2"] = "in_locked"
    /\ stack = <<"task">> /\ pc["task"] = "idle"
    /\ loc["task"].acc > 0 /\ loc["isr2"].acc > 0
    /\ kfifo_len(fifo) /= nIn - nOut

(***************************************************************************)
(* Properties of the interrupt locks.                                      *)
(***************************************************************************)
\* context c is inside the unlocked call that its locked call wraps, or
\* about to restore PRIMASK
InWrapped(c) ==
    /\ Locked(c)
    /\ pc[c] \in {"call", "copy1", "copy2", "load", "store", "restore"}

\* the locked call of context c has just returned
Returned(c) == Locked(c) /\ pc[c] \in {"ret", "read"}

\* C22: interrupts are masked from the first to the last statement of the
\* unlocked call that kfifo_in_locked, kfifo_out_locked or
\* kfifo_out_linear_locked wraps; when the locked call returns PRIMASK has
\* the value it had when the call was made, so a call made with interrupts
\* masked returns with them masked; and irq_unlock(level) leaves PRIMASK at
\* the value it had before the irq_lock() that returned level, however the
\* pairs are nested.
C22_MaskingIsNestingSafe ==
    /\ \A c \in Ctx :
          /\ InWrapped(c) => primask = 1 /\ Running(c)
          /\ Returned(c) /\ Running(c) => primask = loc[c].pm0
    /\ last.op = "irq_unlock" /\ pc["task"] = "idle" /\ Len(stack) = 1
          => primask = last.pm0
    /\ Len(levels) = Cardinality({i \in DOMAIN held : held[i].kind = "irq"})

\* the task has masked interrupts with irq_lock() twice, starting with
\* interrupts enabled, and its kfifo locked call made inside has returned
\* after transferring data
C22_Witness ==
    /\ Len(levels) = 2 /\ held[1].pm = 0 /\ held[2].kind = "irq"
    /\ pc["task"] = "ret" /\ loc["task"].pm0 = 1
    /\ loc["task"].len > 0
    /\ nIn > 0

\* C27: kmutex_lock and kmutex_unlock in nested pairs keep interrupts
\* masked until the outermost kmutex_unlock, and after it PRIMASK has the
\* value it had before the outermost kmutex_lock, whether interrupts were
\* enabled or masked then.
C27_KmutexIsNestingSafe ==
    /\ mutex > 0 => primask = 1
    /\ last.op = "kmutex_unlock" /\ mutex = 0 /\ pc["task"] = "idle"
        /\ Len(stack) = 1
          => primask = last.pm0

(***************************************************************************)
(* Properties of the cursor arithmetic.                                    *)
(***************************************************************************)
\* C23: the cursors are the numbers of elements accepted and removed
\* modulo 2^UINT_BITS, and when they wrap around nothing changes: in - out
\* is the number of stored elements, cursor & mask is the number of
\* elements accepted (removed) modulo the capacity, so that the slots are
\* used in sequence without a gap or a repeat, kfifo_in, kfifo_out and
\* kfifo_out_peek return the counts and the data of the reference queue,
\* and kfifo_out_linear returns the window that starts at that slot.
C23_CursorOverflowIsHarmless ==
    LET cap == kfifo_size(fifo)
    IN  /\ fifo.in = nIn % UINT_MOD /\ fifo.out = nOut % UINT_MOD
        /\ kfifo_len(fifo) = nIn - nOut
        /\ BitAnd(fifo.in, fifo.mask) = nIn % cap
        /\ BitAnd(fifo.out, fifo.mask) = nOut % cap
        /\ kfifo_copy_out(fifo, buffer, nIn - nOut, fifo.out, 0) = ref
        /\ last.op = "in" =>
              /\ last.ret = Min(last.len, cap - (last.nIn0 - last.nOut0))
              /\ ref = last.ref0 \o SrcBuf(last.nIn0 * fifo.esize,
                                           last.ret * fifo.esize)
        /\ last.op \in {"out", "peek"} =>
              /\ last.ret = Min(last.len, last.nIn0 - last.nOut0)
              /\ last.dst = Take(last.ref0, last.ret * fifo.esize)
        /\ \A n \in 0..cap :
              LET r == kfifo_out_linear(fifo, n)
              IN  /\ r.tail = nOut % cap
                  /\ r.ret = min3(n, nIn - nOut, cap - (nOut % cap))

\* the last kfifo_out was made when in had wrapped around and out had not,
\* so that in < out as numbers; it returned elements from both sides of
\* the wrap, and out has wrapped around with it
C23_Witness ==
    /\ last.op = "out" /\ last.ret >= 2
    /\ last.nIn0 >= UINT_MOD /\ last.nOut0 < UINT_MOD
    /\ last.fifo0.in < last.fifo0.out
    /\ nOut > UINT_MOD
    /\ fifo.esize = 2

(***************************************************************************)
(* Properties of kfifo_reset and kfifo_reset_out.                          *)
(***************************************************************************)
\* the fields of the structure that no transfer and no reset writes
SameGeometry(f, g) ==
    f.mask = g.mask /\ f.esize = g.esize /\ f.data = g.data

\* C24: after kfifo_reset both cursors are 0 and the mask, the element
\* size, the storage pointer and the storage are what they were; kfifo_len
\* is 0, kfifo_avail is the capacity, and a kfifo_in of any count made next
\* accepts it up to the capacity and stores its first element at the start
\* of the storage.
C24_ResetZeroesCursorsOnly ==
    last.op = "reset" =>
        /\ fifo.in = 0 /\ fifo.out = 0
        /\ SameGeometry(fifo, last.fifo0)
        /\ buffer = last.buffer0
        /\ kfifo_len(fifo) = 0
        /\ kfifo_avail(fifo) = kfifo_size(fifo)
        /\ \A len \in 1..(kfifo_size(fifo) + 1) :
              LET src == SrcBuf(nIn * fifo.esize, len * fifo.esize)
                  r   == kfifo_in(fifo, buffer, src, len)
              IN  /\ r.ret = Min(len, kfifo_size(fifo))
                  /\ \A j \in 1..fifo.esize : r.buffer[j - 1] = src[j]

\* kfifo_reset of a FIFO of 2-byte elements that held data and whose
\* cursors were at different slots, none of them slot 0
C24_Witness ==
    /\ last.op = "reset"
    /\ fifo.esize = 2
    /\ kfifo_len(last.fifo0) > 0
    /\ BitAnd(last.fifo0.in, fifo.mask) /= 0
    /\ BitAnd(last.fifo0.out, fifo.mask) /= 0

\* C25: after kfifo_reset_out out is the value in had before the call,
\* kfifo_len is 0, and in, the mask, the element size, the storage pointer
\* and the storage are what they were.
C25_ResetOutMovesOutToIn ==
    last.op = "reset_out" =>
        /\ fifo.out = last.fifo0.in
        /\ fifo.in = last.fifo0.in
        /\ kfifo_len(fifo) = 0
        /\ SameGeometry(fifo, last.fifo0)
        /\ buffer = last.buffer0

(***************************************************************************)
(* Properties of the status helpers.                                       *)
(***************************************************************************)
\* C26: in every state reached from an accepted kfifo_init by kfifo_in and
\* kfifo_out (and kfifo_out_peek), kfifo_is_empty is 1 exactly when
\* kfifo_len is 0, kfifo_is_full is 1 exactly when kfifo_len is kfifo_size
\* and exactly when kfifo_avail is 0, and kfifo_len + kfifo_avail is
\* kfifo_size.
C26_StatusHelpersAgree ==
    /\ (kfifo_is_empty(fifo) = 1) <=> (kfifo_len(fifo) = 0)
    /\ (kfifo_is_full(fifo) = 1) <=> (kfifo_len(fifo) = kfifo_size(fifo))
    /\ (kfifo_is_full(fifo) = 1) <=> (kfifo_avail(fifo) = 0)
    /\ kfifo_len(fifo) + kfifo_avail(fifo) = kfifo_size(fifo)
    /\ kfifo_is_empty(fifo) \in {0, 1} /\ kfifo_is_full(fifo) \in {0, 1}

\* a FIFO of more than two elements that is full after in has wrapped
\* around while out has not
C26_Witness ==
    /\ kfifo_is_full(fifo) = 1
    /\ kfifo_size(fifo) > 2
    /\ fifo.in < fifo.out
    /\ last.op = "in" /\ last.ret > 0

(***************************************************************************)
(* Properties of the functions of src/math/log2.h.                         *)
(***************************************************************************)
\* the powers of two an unsigned int can hold
PowersOfTwo == {Pow2(k) : k \in 0..(UINT_BITS - 1)}

\* C29: for every n >= 1 rounddown_pow_of_two(n) is a power of two p with
\* p <= n < 2p, hence the largest one not above n, and p = n when n is a
\* power of two; is_power_of_2(n) is true exactly when n is one of the
\* powers of two, and so false for 0.
C29_RoundDownIsLargestPowerOfTwo ==
    /\ last.op /= "none" /\ last.down.n >= 1 =>
          LET n == last.down.n
              p == last.down.ret
          IN  /\ p \in PowersOfTwo
              /\ p <= n /\ n < 2 * p
              /\ \A q \in PowersOfTwo : q <= n => q <= p
              /\ n \in PowersOfTwo => p = n
    /\ last.op /= "none" =>
          /\ last.pow2.ret \in BOOLEAN
          /\ last.pow2.ret <=> last.pow2.n \in PowersOfTwo
          /\ last.pow2.n = 0 => ~last.pow2.ret

\* the largest value that is not a power of two has been rounded down to
\* the top bit, and the top bit has been found to be a power of two
C29_Witness ==
    /\ last.op = "is_power_of_2"
    /\ last.down.n = UINT_MAX /\ last.down.ret = Pow2(UINT_BITS - 1)
    /\ last.pow2.n = Pow2(UINT_BITS - 1) /\ last.pow2.ret

(***************************************************************************)
(* Properties of the two memcpy calls of a transfer.                       *)
(***************************************************************************)
\* the cursor the last call has passed to kfifo_copy_in or kfifo_copy_out
Cursor0 == IF last.op = "in" THEN last.fifo0.in ELSE last.fifo0.out

\* C30: a kfifo_in, kfifo_out or kfifo_out_peek that transfers count
\* elements makes two copies: min(len_bytes, size_bytes - off_bytes) bytes
\* at off_bytes = (cursor & mask) * esize and the rest at 0, count * esize
\* bytes together; both lie inside the capacity * esize bytes of the
\* storage and do not overlap; kfifo_in changes no byte outside of them and
\* the other two return the bytes of the first followed by those of the
\* second.
C30_TwoSegmentsInsideStorage ==
    last.op \in {"in", "out", "peek"} =>
        LET f0    == last.fifo0
            g     == CopyGeom(f0, last.ret, Cursor0)
            sizeB == (f0.mask + 1) * f0.esize
            offB  == (Cursor0 % (f0.mask + 1)) * f0.esize
            lenB  == last.ret * f0.esize
        IN  /\ g.off = offB /\ g.len = lenB /\ g.size = sizeB
            /\ g.l = Min(lenB, sizeB - offB)
            /\ g.l + (g.len - g.l) = last.ret * f0.esize
            /\ g.off + g.l <= sizeB /\ g.len - g.l <= sizeB
            /\ g.len - g.l > 0 => g.len - g.l <= g.off
            /\ 0..(sizeB - 1) \subseteq DOMAIN buffer
            /\ ~fault
            /\ ~CopyOutside(f0, last.buffer0, last.ret, Cursor0)
            /\ last.op = "in" =>
                  \A a \in DOMAIN buffer :
                     buffer[a] /= last.buffer0[a] =>
                        (g.off <= a /\ a < g.off + g.l) \/ a < g.len - g.l
            /\ last.op /= "in" =>
                  /\ buffer = last.buffer0
                  /\ last.dst =
                        [i \in 1..lenB |->
                            IF i <= g.l THEN last.buffer0[g.off + i - 1]
                            ELSE last.buffer0[i - g.l - 1]]

\* a kfifo_in of 2-byte elements whose first copy ends at the last byte of
\* the storage and whose second copy ends right below the first
C30_Witness ==
    /\ last.op = "in" /\ last.fifo0.esize = 2
    /\ LET g == CopyGeom(last.fifo0, last.ret, Cursor0)
       IN  /\ g.l > 0 /\ g.len - g.l > 0
           /\ g.off + g.l = g.size
           /\ g.len - g.l = g.off

(***************************************************************************)
(* Properties of the spinlock.                                             *)
(***************************************************************************)
\* the contexts that have acquired the lock and not released it
Holders == {a \in Agents : agent[a].holds}

\* C28: at most one context holds the spinlock at any time, and the lock
\* word is 1 exactly while one does; a spinlock_trylock that returns false
\* has made no store to the lock word.
C28_SpinlockMutualExclusion ==
    /\ Cardinality(Holders) <= 1
    /\ (spinlock.lock = 1) <=> (Holders /= {})
    /\ spinlock.lock \in {0, 1}
    /\ last.op = "spinlock_trylock" /\ ~last.ret => last.stores = 0

\* the task of core 1 holds the lock while the handler of core 0, which
\* interrupted the task of core 0 inside its own call, has just failed a
\* spinlock_trylock
C28_Witness ==
    /\ agent["t1"].holds
    /\ last.op = "spinlock_trylock" /\ ~last.ret /\ last.agent = "i0"
    /\ last.lock0 = 1
    /\ agent["t0"].pc = "disable"

(***************************************************************************)
(* Properties of the elements of a transfer.                               *)
(***************************************************************************)
\* the byte address of element e of the last transfer in the storage
ElemAt(e) ==
    ((Cursor0 + e) % (last.fifo0.mask + 1)) * last.fifo0.esize

\* C31: the byte offset and the lengths of both segments of every transfer
\* are multiples of esize, every element of the transfer occupies esize
\* consecutive bytes inside the storage, and kfifo_out returns each element
\* as the esize bytes kfifo_in stored for it, in the same order.
C31_SplitOnElementBoundary ==
    last.op \in {"in", "out", "peek"} =>
        LET f0 == last.fifo0
            es == f0.esize
            g  == CopyGeom(f0, last.ret, Cursor0)
        IN  /\ es >= 1
            /\ g.off % es = 0 /\ g.l % es = 0 /\ (g.len - g.l) % es = 0
            /\ \A e \in 0..(last.ret - 1) :
                  /\ ElemAt(e) + es <= (f0.mask + 1) * es
                  /\ ElemAt(e) >= g.off
                        => ElemAt(e) + es <= g.off + g.l
                  /\ ElemAt(e) < g.off
                        => ElemAt(e) + es <= g.len - g.l
                  /\ last.op = "in" =>
                        \A j \in 0..(es - 1) :
                           buffer[ElemAt(e) + j] =
                              SrcBuf(last.nIn0 * es, last.ret * es)
                                 [e * es + j + 1]
                  /\ last.op = "out" =>
                        \A j \in 0..(es - 1) :
                           /\ last.dst[e * es + j + 1] =
                                 last.buffer0[ElemAt(e) + j]
                           /\ last.dst[e * es + j + 1] =
                                 last.ref0[e * es + j + 1]

\* a kfifo_out of 2-byte elements that is read in two segments, one element
\* from the end of the storage and at least one from its start
C31_Witness ==
    /\ last.op = "out" /\ last.fifo0.esize = 2 /\ last.ret >= 2
    /\ LET g == CopyGeom(last.fifo0, last.ret, Cursor0)
       IN  g.l = 2 /\ g.len - g.l >= 2 /\ g.off + g.l = g.size

(***************************************************************************)
(* Properties of the fields each operation writes.                         *)
(***************************************************************************)
\* the number the last call has added to its own cursor
Advance ==
    CASE last.op \in {"in", "out"} -> last.ret
      [] last.op \in {"peek", "out_linear"} -> 0
      [] last.op = "skip" -> 1
      [] last.op = "skip_count" -> last.len

WindowBytes ==
    {cLoc.off * fifo.esize + i : i \in 0..(cLoc.len * fifo.esize - 1)}

C34_LinearRoundsEqualOut ==
    /\ last.op = "linear_round" =>
          LET o == kfifo_out(last.fifo0, last.buffer0, last.ret, 0)
          IN  /\ last.dst = o.dst
              /\ last.dst = Take(last.ref0, last.ret * fifo.esize)
              /\ fifo = o.fifo
              /\ buffer = o.buffer
              /\ last.ret = Min(last.len,
                                Min(Used0, Cap0 - (last.fifo0.out % Cap0)))
    /\ ~fault /\ Intact =>
          \A n \in LenArgs(fifo) :
             n >= kfifo_len(fifo) =>
                LET r1 == linear_round(fifo, buffer, n)
                    r2 == linear_round(r1.fifo, buffer, n)
                    o  == kfifo_out(fifo, buffer, n, 0)
                IN  /\ r1.dst \o r2.dst = o.dst
                    /\ r1.ret + r2.ret = o.ret
                    /\ r2.fifo = o.fifo
                    /\ kfifo_is_empty(r2.fifo) = 1

\* the second of two rounds on a FIFO of 2-byte elements whose content went
\* around the end of the storage: the first round took the elements up to
\* the end, this one takes the rest from the start and empties the FIFO
C34_Witness ==
    /\ last.op = "linear_round" /\ last.prev.op = "linear_round"
    /\ fifo.esize = 2
    /\ last.prev.ret >= 1 /\ last.prev.tail > 0
    /\ last.prev.len >= last.prev.used
    /\ last.ret >= 1 /\ last.tail = 0
    /\ kfifo_is_empty(fifo) = 1

AllDelivered ==
    delivered = SrcBuf(0, MaxConcAccepted * fifo.esize)

\* C36: the FIFO is never without free space for kfifo_in and without data
\* for kfifo_out at once; when both contexts keep running, all elements the
\* producer offers are eventually delivered to the consumer, and every
\* kfifo_in and every kfifo_out that has started returns.
C36_ProgressWithoutBlocking ==
    /\ [](~(kfifo_unused(fifo) = 0 /\ kfifo_len(fifo) = 0))
    /\ <>AllDelivered
    /\ (pcP /= "idle") ~> (pcP = "idle")
    /\ (pcC /= "idle") ~> (pcC = "idle")

\* all elements offered have been delivered through a ring smaller than
\* their number, and the consumer has found the FIFO empty in between
C36_Witness ==
    /\ AllDelivered
    /\ MaxConcAccepted > fifo.mask + 1
    /\ kfifo_len(fifo) = 0
    /\ pcC = "copy1" /\ cLoc.len = 0

(***************************************************************************)
(* Properties of the interrupt state the spinlock saves.                   *)
(***************************************************************************)
\* C37: the value spinlock_unlock restores to PRIMASK is the one irq_lock
\* returned to the unlocking holder when it acquired the lock, and the
\* value a failed spinlock_trylock restores is the one irq_lock returned to
\* that call, whatever other contexts have called in between.
C37_UnlockRestoresOwnState ==
    \/ last.op = "spinlock_unlock"
    \/ last.op = "spinlock_trylock" /\ ~last.ret
    => last.restored = last.own

(***************************************************************************)
(* Properties of stimer_start and stimer_stop on a timer in any state.     *)
(***************************************************************************)
\* how often node k occurs in the sequence of nodes l
Occurrences(l, k) == Cardinality({i \in 1..Len(l) : l[i] = k})

\* stimer_list is a circular doubly linked list: following next from the
\* head leads through nodes of timers, each once, back to the head, and
\* every prev pointer is the inverse of a next pointer
WellFormed(nd) ==
    LET l == Listed(nd)
        at(i) == IF i = 0 \/ i = Len(l) + 1 THEN stimer_list ELSE l[i]
    IN  /\ Len(l) <= MaxTimers
        /\ \A i \in 0..Len(l) :
              /\ nd[at(i)].next = at(i + 1)
              /\ nd[at(i + 1)].prev = at(i)
        /\ \A t \in Timers : Occurrences(l, t) <= 1

\* C38: stimer_start on a created timer - never started, running, stopped by
\* stimer_stop, or a one-shot timer that expired in stimer_service - and
\* stimer_stop on a timer that is stopped or has expired never hand the
\* pointers list_del left in a removed node to list_del again; stimer_start
\* leaves the timer active and exactly once in stimer_list, and both leave
\* the list well-formed
C38_StartAndStopInAnyState ==
    last.op \in {"stimer_start", "stimer_stop"} =>
        /\ hazard = "none"
        /\ WellFormed(node)
        /\ last.op = "stimer_start" =>
              /\ timers[last.t].active = 1
              /\ Occurrences(Listed(node), last.t) = 1

(***************************************************************************)
(* Termination of stimer_service.                                          *)
(***************************************************************************)
\* C39: every call of stimer_service returns, whatever timers are in the
\* list and whatever their periods are - 0 and periods not larger than the
\* accumulated drift included - and accumulated_drift is 0 when it returns
C39_ServiceTerminates ==
    (service.pc /= "idle") ~>
        (service.pc = "idle" /\ service.accumulated_drift = 0)

(***************************************************************************)
(* Properties of the order of stimer_list.                                 *)
(***************************************************************************)
\* the timers of the list are in non-decreasing expire_time order
Sorted(nd, tm) ==
    LET l == Listed(nd)
    IN  \A i, j \in 1..Len(l) :
           i < j => tm[l[i]].expire_time <= tm[l[j]].expire_time

\* timer t stands behind all timers of the list with an equal or smaller
\* expire_time, and before all others
BehindEqualKeys(nd, tm, t) ==
    LET l == Listed(nd)
    IN  \A i, j \in 1..Len(l) :
           l[i] = t /\ j /= i =>
              (j < i <=> tm[l[j]].expire_time <= tm[t].expire_time)

\* the latest call has inserted its timer with sorted_insert_list
Inserted ==
    /\ last.op \in {"stimer_start", "stimer_change_period", "stimer_reset"}
    /\ hazard /= "trap"
    /\ timers[last.t].active = 1

\* C40: after any sequence of stimer_start, stimer_stop,
\* stimer_change_period, stimer_reset and stimer_service calls stimer_list is
\* a well-formed circular doubly linked list in non-decreasing expire_time
\* order that holds each active timer exactly once; sorted_insert_list puts
\* a timer behind all timers with an equal or smaller expire_time; and when
\* stimer_service leaves its loop every timer that had expired when it was
\* called has had its callback called
C40_ListSortedAndComplete ==
    /\ WellFormed(node)
    /\ Sorted(node, timers)
    /\ \A t \in Timers :
          timers[t].active = 1 => Occurrences(Listed(node), t) = 1
    /\ Inserted => BehindEqualKeys(node, timers, last.t)
    /\ service.pc = "done" => service.due \subseteq service.fired

\* stimer_start has put a timer behind the timer with the same expire_time
C40_Witness ==
    /\ Inserted /\ last.op = "stimer_start"
    /\ Len(Listed(node)) = 2 /\ Listed(node)[2] = last.t
    /\ timers[1].expire_time = timers[2].expire_time

====
